---- MODULE Spec2Model ----
(***************************************************************************)
(* Model of the authenticated API access engine of ghapp-cli:              *)
(*   - the token lifecycle (getOctokitClient, createManualJWT,             *)
(*     isTokenValid, updateEnvToken),                                      *)
(*   - the pagination engine (fetchAllPages),                              *)
(*   - the retry wrapper (retryWithBackoff), alone and around              *)
(*     fetchAllPages,                                                      *)
(*   - the batch engine (fetchAllRepositorySecrets,                        *)
(*     fetchAllRepositoryVariables),                                       *)
(*   - the team hierarchy resolution (getDirectMembersOnly),               *)
(*   - the command handlers and what they do with a failure                *)
(*     (handleRepositoriesCommand, handleTeamsCommand,                     *)
(*     handleWebhooksCommand, handleSecretsCommand,                        *)
(*     handleVariablesCommand, handleTokenCommand),                        *)
(*   - the way of a webhook secret to the output                           *)
(*     (enrichRepositoriesWithWebhooks).                                   *)
(* Times are JavaScript millisecond timestamps; every time the model uses  *)
(* is a multiple of Minute.                                                *)
(***************************************************************************)
EXTENDS Integers, Sequences, FiniteSets, TLC

(* ------------------------------ bounds --------------------------------- *)
NumCallers == 2
MaxCalls == 3
MaxTicks == 2
MaxItems == 4
MaxPageRequests == 6
MaxSmallPage == 3
MaxConfigRetries == 3
MaxFullPages == 2
MaxRepos == 12
MaxUsers == 3

(* -------------------------- program constants -------------------------- *)
tokenRefreshBuffer == 300000
defaultPerPage == 30
maxPerPage == 100
Minute == 60000
TokenLifetime == 3600000
JwtBackdate == 60
JwtLifetime == 300
batchSize == 5
interBatchDelay == 100

Callers == 1..NumCallers

(* ------------------------- JavaScript values --------------------------- *)
(* A string-or-undefined value.  kind "undefined" is the JS undefined,     *)
(* "empty" the empty string, "text" a non-empty string that is not a date  *)
(* (s names it, t numbers it), "iso" an ISO-8601 date string of time t.    *)
Undefined == [kind |-> "undefined", s |-> "", t |-> 0]
EmptyStr == [kind |-> "empty", s |-> "", t |-> 0]
Text(name, n) == [kind |-> "text", s |-> name, t |-> n]
Iso(ms) == [kind |-> "iso", s |-> "", t |-> ms]

Truthy(v) == v.kind \notin {"undefined", "empty"}

(* A JS number that may be NaN. *)
NaN == [nan |-> TRUE, v |-> 0]
Num(n) == [nan |-> FALSE, v |-> n]

(* new Date(x).getTime(): the time of a date string, NaN for any other    *)
(* string, 0 for null (kind "null").                                       *)
DateGetTime(x) ==
  IF x.kind = "iso" THEN Num(x.t)
  ELSE IF x.kind = "null" THEN Num(0)
  ELSE NaN

VARIABLES
  now,              \* local clock, ms
  cfgToken,         \* config.github.token
  cfgExpires,       \* config.github.tokenExpires
  envFile,          \* the .env file: [exists, lines]
  cfgBuild,         \* which updateEnvToken the build contains
  octokitInstance,  \* module variable of github.js
  pc,               \* per caller: position inside getOctokitClient
  token,            \* per caller: local variable token
  resp,             \* per caller: the response being awaited / read
  jwtOf,            \* per caller: payload of the signed assertion
  result,           \* per caller: returned client or thrown error
  timeReqs,         \* requests sent to the time source
  exchangeReqs,     \* POSTs sent to the access_tokens endpoint
  issued,           \* tokens issued by the exchange endpoint so far
  hookCalls,        \* per caller: arguments of its updateEnvToken calls
  calls,            \* number of getOctokitClient calls made
  optPerPage,       \* fetchAllPages: options.perPage (0: not given)
  endpoint,         \* fetchAllPages: the endpoint apiCall requests
  collection,       \* the items the endpoint holds
  pgPc,             \* fetchAllPages: position
  perPage,          \* fetchAllPages: const perPage
  currentPage,      \* fetchAllPages: let currentPage
  results,          \* fetchAllPages: const results
  requested,        \* the page cursors requested so far, in order
  returned,         \* the responses received, in order
  fetchError,       \* the error the failed page fetch threw
  pgResult,         \* fetchAllPages: returned array or thrown error
  firstDrain,       \* what an earlier fetchAllPages call of the run returned
  rtConfig,         \* retryWithBackoff: config
  rtPc,             \* retryWithBackoff: position
  attempt,          \* retryWithBackoff: let attempt
  lastError,        \* retryWithBackoff: let lastError
  rtResult,         \* retryWithBackoff: returned value or thrown error
  fnCalls,          \* number of invocations of fn so far
  fnErrors,         \* the errors fn threw, one per failed attempt, in order
  fnValues,         \* the values fn resolved with, in order
  slept,            \* the delays slept so far, in order
  pageLog,          \* the page cursors fn requested, over all attempts
  engine,           \* "secrets": fetchAllRepositorySecrets, "variables":
                    \* fetchAllRepositoryVariables
  repoCount,        \* repos.length: the repositories are 1..repoCount
  plan,             \* per repository: what its secrets/variables fetch settles with
  btPc,             \* batch engine: position
  bi,               \* batch engine: let i
  task,             \* per repository: state of its promise of the batch
  batchResults,     \* the slots of the array Promise.all resolves with
  allSecrets,       \* const allSecrets / allRepoVariables
  processedCount,   \* let processedCount
  btSlept,          \* the delays slept between batches, in order
  deniedReports,    \* logError lines of the per-repository function for a 403
  btError,          \* the error the engine threw
  teams,            \* the teams of the organization, as teams.list returned them
  rawMembers,       \* per team slug: the members listMembersInOrg reports
  teamSlug,         \* the team being enriched
  teamHierarchy,    \* const teamHierarchy
  tmPc,             \* enrichment of the team: position
  memberDetails,    \* const memberDetails (usernames)
  allMembers,       \* getDirectMembersOnly: const allMembers (usernames)
  childMembers,     \* getDirectMembersOnly: const childMembers
  childIdx,         \* getDirectMembersOnly: position in childTeamSlugs
  directMembers,    \* direct_members_only of the enriched team
  dmFetches,        \* the member fetches getDirectMembersOnly made, in order
  cmd,              \* the command invoked and its options
  cmdPc,            \* command handler: position
  cmdFailures,      \* the credential and listing failures of the invocation
  cmdItems,         \* the scopes whose items the handler has collected
  displayed,        \* the handler has called its display function
  exported,         \* the handler has written a CSV file
  whSecret,         \* per run: config.secret of the webhook as the API reports it
  whMode,           \* how the webhooks command outputs: csv, detailed, brief
  whPc,             \* enrichment and output of the webhook: position
  whDetailed,       \* getWebhook succeeded for the webhook
  whConfig,         \* per run: config.secret of the enriched webhook
  whShown           \* per run: the secret cell or line that was output

tokenVars == <<now, cfgToken, cfgExpires, envFile, cfgBuild, octokitInstance,
               pc, token, resp, jwtOf, result, timeReqs, exchangeReqs,
               issued, hookCalls, calls>>

pageVars == <<optPerPage, endpoint, collection, pgPc, perPage, currentPage,
              results, requested, returned, fetchError, pgResult>>

roundVars == <<firstDrain>>

retryVars == <<rtConfig, rtPc, attempt, lastError, rtResult, fnCalls,
               fnErrors, fnValues, slept, pageLog>>

batchVars == <<engine, repoCount, plan, btPc, bi, task, batchResults,
               allSecrets, processedCount, btSlept, deniedReports, btError>>

teamVars == <<teams, rawMembers, teamSlug, teamHierarchy, tmPc, memberDetails,
              allMembers, childMembers, childIdx, directMembers, dmFetches>>

cmdVars == <<cmd, cmdPc, cmdFailures, cmdItems, displayed, exported>>

hookVars == <<whSecret, whMode, whPc, whDetailed, whConfig, whShown>>

vars == <<tokenVars, pageVars, roundVars, retryVars, batchVars, teamVars,
          cmdVars, hookVars>>

(* The variables outside each part of the program. *)
outsideToken ==
  <<pageVars, roundVars, retryVars, batchVars, teamVars, cmdVars, hookVars>>
outsidePages ==
  <<tokenVars, roundVars, retryVars, batchVars, teamVars, cmdVars, hookVars>>
outsideRound ==
  <<tokenVars, retryVars, batchVars, teamVars, cmdVars, hookVars>>
outsideRetry ==
  <<tokenVars, pageVars, roundVars, batchVars, teamVars, cmdVars, hookVars>>
outsideRetryPages ==
  <<tokenVars, roundVars, batchVars, teamVars, cmdVars, hookVars>>
outsideBatch ==
  <<tokenVars, pageVars, roundVars, retryVars, teamVars, cmdVars, hookVars>>
outsideTeams ==
  <<tokenVars, pageVars, roundVars, retryVars, batchVars, cmdVars, hookVars>>
outsideCmd ==
  <<tokenVars, pageVars, roundVars, retryVars, batchVars, teamVars, hookVars>>
outsideHooks ==
  <<tokenVars, pageVars, roundVars, retryVars, batchVars, teamVars, cmdVars>>
outsideTokenCmd ==
  <<pageVars, roundVars, retryVars, batchVars, teamVars, hookVars>>

(* ----------------------------- config.js ------------------------------- *)
(* isTokenValid with the subtraction reversed. *)
isTokenValid_reversed(expiresAt) ==
  IF ~Truthy(expiresAt) THEN FALSE
  ELSE LET expiry == DateGetTime(expiresAt)
       IN IF expiry.nan THEN FALSE
          ELSE now - expiry.v > tokenRefreshBuffer

(* isTokenValid without the refresh buffer. *)
isTokenValid_noBuffer(expiresAt) ==
  IF ~Truthy(expiresAt) THEN FALSE
  ELSE LET expiry == DateGetTime(expiresAt)
       IN IF expiry.nan THEN FALSE
          ELSE expiry.v - now > 0

isTokenValid(expiresAt) ==
  IF ~Truthy(expiresAt) THEN FALSE
  ELSE LET expiry == DateGetTime(expiresAt)
       IN IF expiry.nan THEN FALSE
          ELSE expiry.v - now > tokenRefreshBuffer

(* One line of the .env file, "KEY=val"; key "#" is any other line. *)
Line(k, v) == [key |-> k, val |-> v]
KeyToken == "GITHUB_APP_TOKEN"
KeyExpires == "GITHUB_APP_TOKEN_EXPIRES"

(* line.startsWith(key + '=') *)
startsWith(line, key) == line.key = key

MapLine(line, newToken, expiresAt) ==
  IF startsWith(line, KeyToken) THEN Line(KeyToken, newToken)
  ELSE IF startsWith(line, KeyExpires) THEN Line(KeyExpires, expiresAt)
  ELSE line

HasKey(lines, key) == \E i \in 1..Len(lines) : startsWith(lines[i], key)

(* The file content updateEnvToken writes, first version of config.js.    *)
updatedLinesV1(lines, newToken, expiresAt) ==
  [i \in 1..Len(lines) |-> MapLine(lines[i], newToken, expiresAt)]

(* The file content updateEnvToken writes, second version of config.js.   *)
updatedLinesV2(lines, newToken, expiresAt) ==
  LET mapped == [i \in 1..Len(lines) |-> MapLine(lines[i], newToken, expiresAt)]
      withTok == IF HasKey(lines, KeyToken) THEN mapped
                 ELSE Append(mapped, Line(KeyToken, newToken))
  IN IF HasKey(lines, KeyExpires) THEN withTok
     ELSE Append(withTok, Line(KeyExpires, expiresAt))

(* Does updateEnvToken throw before writing?  The first version reads the *)
(* file unconditionally; the second treats a missing file as empty.       *)
updateEnvTokenThrows(file, build, writeOk) ==
  \/ (build = "v1" /\ ~file.exists)
  \/ ~writeOk

updateEnvTokenFile(file, build, newToken, expiresAt) ==
  [exists |-> TRUE,
   lines |-> IF build = "v1"
             THEN updatedLinesV1(file.lines, newToken, expiresAt)
             ELSE updatedLinesV2(IF file.exists THEN file.lines ELSE <<>>,
                                 newToken, expiresAt)]

(* dotenv.config() at module load: process.env.KEY of the file, the last  *)
(* assignment winning, undefined without one.                              *)
RECURSIVE EnvValue(_, _)
EnvValue(lines, key) ==
  IF lines = <<>> THEN Undefined
  ELSE IF lines[Len(lines)].key = key THEN lines[Len(lines)].val
  ELSE EnvValue(SubSeq(lines, 1, Len(lines) - 1), key)

(* ------------------------------ github.js ------------------------------ *)
Null == [kind |-> "null", s |-> "", t |-> 0]

NoError == [name |-> "none", status |-> 0]
Err(n, st) == [name |-> n, status |-> st]

NoResult == [kind |-> "none", auth |-> Undefined, err |-> NoError]
Client(tok) == [kind |-> "client", auth |-> tok, err |-> NoError]
Thrown(e) == [kind |-> "error", auth |-> Undefined, err |-> e]

NoResp == [status |-> 0, token |-> Undefined, expires |-> Undefined]
NoJwt == [signed |-> FALSE, iat |-> Num(0), exp |-> Num(0), header |-> Undefined]

NoInstance == [set |-> FALSE, auth |-> Undefined]

(* "Create new instance if needed": the instance after the last two lines *)
(* of getOctokitClient.                                                    *)
instanceFor(inst, tok) ==
  IF ~inst.set \/ inst.auth # tok THEN [set |-> TRUE, auth |-> tok] ELSE inst

(* The test looking at the token only, not at its expiry. *)
needsRefresh_tokenOnly(tok, expiresAt) == ~Truthy(tok)

(* The test of getOctokitClient that decides on a refresh. *)
needsRefresh(tok, expiresAt) == ~Truthy(tok) \/ ~isTokenValid(expiresAt)

(* The payload createManualJWT signs for the Date header it received. *)
jwtPayload(dateHeader) ==
  LET githubDate == DateGetTime(dateHeader)
      githubTimestamp == IF githubDate.nan THEN NaN ELSE Num(githubDate.v \div 1000)
  IN [signed |-> TRUE,
      iat |-> IF githubTimestamp.nan THEN NaN ELSE Num(githubTimestamp.v - JwtBackdate),
      exp |-> IF githubTimestamp.nan THEN NaN ELSE Num(githubTimestamp.v + JwtLifetime),
      header |-> dateHeader]

(* response.ok taken to mean "not a server error". *)
ok_lenient(status) == status < 500

(* response.ok *)
ok(status) == status >= 200 /\ status <= 299

(* An HTTP status of the success class: the access_tokens endpoint creates *)
(* a token exactly when it answers with one.                               *)
isSuccessStatus(status) == status \div 100 = 2

(* The Date headers the time source may answer with: none, one that is    *)
(* not a date, the server's time.                                          *)
DateHeaders == {Null, Text("garbage", 0), Iso(now)}
Statuses == {201, 401, 500}
ExpiryOffsets == {tokenRefreshBuffer, TokenLifetime}

(* getOctokitClient up to its first await (or to its return when the      *)
(* cached token is valid).                                                 *)
Call(c) ==
  /\ pc[c] = "idle"
  /\ calls < MaxCalls
  /\ calls' = calls + 1
  /\ token' = [token EXCEPT ![c] = cfgToken]
  /\ IF needsRefresh(cfgToken, cfgExpires)
     THEN /\ pc' = [pc EXCEPT ![c] = "awaitTime"]
          /\ timeReqs' = timeReqs + 1
          /\ UNCHANGED <<octokitInstance, result>>
     ELSE /\ pc' = [pc EXCEPT ![c] = "done"]
          /\ octokitInstance' = instanceFor(octokitInstance, cfgToken)
          /\ result' = [result EXCEPT ![c] = Client(octokitInstance'.auth)]
          /\ UNCHANGED timeReqs
  /\ UNCHANGED <<now, cfgToken, cfgExpires, envFile, cfgBuild, resp, jwtOf,
                 exchangeReqs, issued, hookCalls>>

(* The request to the time source fails: createManualJWT rethrows, and    *)
(* getOctokitClient logs and rethrows.                                     *)
TimeFails(c) ==
  /\ pc[c] = "awaitTime"
  /\ pc' = [pc EXCEPT ![c] = "failed"]
  /\ result' = [result EXCEPT ![c] = Thrown(Err("FailedToCreateJWT", 0))]
  /\ UNCHANGED <<now, cfgToken, cfgExpires, envFile, cfgBuild, octokitInstance,
                 token, resp, jwtOf, timeReqs, exchangeReqs, issued,
                 hookCalls, calls>>

(* The time source answers; getPrivateKey or jwt.sign throws. *)
SignFails(c) ==
  /\ pc[c] = "awaitTime"
  /\ pc' = [pc EXCEPT ![c] = "failed"]
  /\ result' = [result EXCEPT ![c] = Thrown(Err("FailedToCreateJWT", 0))]
  /\ UNCHANGED <<now, cfgToken, cfgExpires, envFile, cfgBuild, octokitInstance,
                 token, resp, jwtOf, timeReqs, exchangeReqs, issued,
                 hookCalls, calls>>

(* The time source answers with dateHeader; the assertion is signed and   *)
(* the exchange request is sent.                                           *)
TimeReturns(c) ==
  /\ pc[c] = "awaitTime"
  /\ \E dateHeader \in DateHeaders :
       jwtOf' = [jwtOf EXCEPT ![c] = jwtPayload(dateHeader)]
  /\ exchangeReqs' = exchangeReqs + 1
  /\ pc' = [pc EXCEPT ![c] = "awaitExchange"]
  /\ UNCHANGED <<now, cfgToken, cfgExpires, envFile, cfgBuild, octokitInstance,
                 token, resp, result, timeReqs, issued, hookCalls, calls>>

(* The exchange request itself fails (fetch rejects). *)
ExchangeFails(c) ==
  /\ pc[c] = "awaitExchange"
  /\ pc' = [pc EXCEPT ![c] = "failed"]
  /\ result' = [result EXCEPT ![c] = Thrown(Err("FetchFailed", 0))]
  /\ UNCHANGED <<now, cfgToken, cfgExpires, envFile, cfgBuild, octokitInstance,
                 token, resp, jwtOf, timeReqs, exchangeReqs, issued,
                 hookCalls, calls>>

(* The exchange endpoint answers.  A 2xx answer carries a token the       *)
(* endpoint has not issued before and its expiry.                          *)
ExchangeReturns(c) ==
  /\ pc[c] = "awaitExchange"
  /\ \E status \in Statuses, off \in ExpiryOffsets :
       /\ IF isSuccessStatus(status)
          THEN /\ resp' = [resp EXCEPT ![c] = [status |-> status,
                                               token |-> Text("ghs", issued + 1),
                                               expires |-> Iso(now + off)]]
               /\ issued' = issued + 1
          ELSE /\ resp' = [resp EXCEPT ![c] = [status |-> status,
                                               token |-> Undefined,
                                               expires |-> Undefined]]
               /\ issued' = issued
       /\ pc' = [pc EXCEPT ![c] = IF ok(status) THEN "awaitJson" ELSE "awaitText"]
  /\ UNCHANGED <<now, cfgToken, cfgExpires, envFile, cfgBuild, octokitInstance,
                 token, jwtOf, result, timeReqs, exchangeReqs, hookCalls, calls>>

(* await response.text() of a non-2xx answer, then the throw. *)
TextRead(c) ==
  /\ pc[c] = "awaitText"
  /\ pc' = [pc EXCEPT ![c] = "failed"]
  /\ result' = [result EXCEPT ![c] = Thrown(Err("GitHubAPIError", resp[c].status))]
  /\ UNCHANGED <<now, cfgToken, cfgExpires, envFile, cfgBuild, octokitInstance,
                 token, resp, jwtOf, timeReqs, exchangeReqs, issued,
                 hookCalls, calls>>

(* await response.json() of a 2xx answer, updateEnvToken, and the rest of *)
(* getOctokitClient.                                                       *)
JsonRead(c) ==
  /\ pc[c] = "awaitJson"
  /\ LET tokenData == resp[c] IN
     /\ token' = [token EXCEPT ![c] = tokenData.token]
     /\ hookCalls' = [hookCalls EXCEPT ![c] = Append(@, <<tokenData.token, tokenData.expires>>)]
     /\ \E writeOk \in BOOLEAN :
          IF updateEnvTokenThrows(envFile, cfgBuild, writeOk)
          THEN /\ pc' = [pc EXCEPT ![c] = "failed"]
               /\ result' = [result EXCEPT ![c] = Thrown(Err("EnvWriteError", 0))]
               /\ UNCHANGED <<cfgToken, cfgExpires, envFile, octokitInstance>>
          ELSE /\ envFile' = updateEnvTokenFile(envFile, cfgBuild,
                                                tokenData.token, tokenData.expires)
               /\ cfgToken' = tokenData.token
               /\ cfgExpires' = tokenData.expires
               /\ octokitInstance' = instanceFor(octokitInstance, tokenData.token)
               /\ result' = [result EXCEPT ![c] = Client(octokitInstance'.auth)]
               /\ pc' = [pc EXCEPT ![c] = "done"]
  /\ UNCHANGED <<now, cfgBuild, resp, jwtOf, timeReqs, exchangeReqs, issued, calls>>

(* The caller has its client or its error; it may call again. *)
Finish(c) ==
  /\ pc[c] \in {"done", "failed"}
  /\ pc' = [pc EXCEPT ![c] = "idle"]
  /\ token' = [token EXCEPT ![c] = Undefined]
  /\ resp' = [resp EXCEPT ![c] = NoResp]
  /\ jwtOf' = [jwtOf EXCEPT ![c] = NoJwt]
  /\ result' = [result EXCEPT ![c] = NoResult]
  /\ hookCalls' = [hookCalls EXCEPT ![c] = <<>>]
  /\ UNCHANGED <<now, cfgToken, cfgExpires, envFile, cfgBuild, octokitInstance,
                 timeReqs, exchangeReqs, issued, calls>>

(* A minute passes. *)
Tick ==
  /\ now < MaxTicks * Minute
  /\ now' = now + Minute
  /\ UNCHANGED <<cfgToken, cfgExpires, envFile, cfgBuild, octokitInstance,
                 pc, token, resp, jwtOf, result, timeReqs, exchangeReqs,
                 issued, hookCalls, calls>>

(* The .env files a run may start with. *)
OtherLine == Line("#", Text("GITHUB_APP_ID=123", 0))
OldToken == Text("old_token", 0)
InitCredentials ==
  {<<EmptyStr, EmptyStr>>,
   <<OldToken, Text("auto_generated", 0)>>,
   <<OldToken, Iso(0 - Minute)>>,
   <<OldToken, Iso(Minute)>>,
   <<OldToken, Iso(tokenRefreshBuffer)>>,
   <<OldToken, Iso(tokenRefreshBuffer + Minute)>>,
   <<EmptyStr, Iso(tokenRefreshBuffer + Minute)>>}
InitEnvFiles ==
  {[exists |-> FALSE, lines |-> <<>>], [exists |-> TRUE, lines |-> <<OtherLine>>]}
  \cup {[exists |-> TRUE,
         lines |-> <<OtherLine, Line(KeyToken, cr[1]), Line(KeyExpires, cr[2])>>] :
        cr \in InitCredentials}

TokenInit ==
  /\ now = 0
  /\ envFile \in InitEnvFiles
  /\ cfgBuild \in {"v1", "v2"}
  /\ cfgToken = EnvValue(envFile.lines, KeyToken)
  /\ cfgExpires = EnvValue(envFile.lines, KeyExpires)
  /\ octokitInstance = NoInstance
  /\ pc = [c \in Callers |-> "idle"]
  /\ token = [c \in Callers |-> Undefined]
  /\ resp = [c \in Callers |-> NoResp]
  /\ jwtOf = [c \in Callers |-> NoJwt]
  /\ result = [c \in Callers |-> NoResult]
  /\ timeReqs = 0
  /\ exchangeReqs = 0
  /\ issued = 0
  /\ hookCalls = [c \in Callers |-> <<>>]
  /\ calls = 0

(* A command handler awaits getOctokitClient once, at its start: in the   *)
(* program as it is run no two calls overlap.                              *)
AwaitedCall(c) ==
  /\ \A d \in Callers : pc[d] = "idle"
  /\ Call(c)

Steps(c) ==
  \/ TimeFails(c)
  \/ SignFails(c)
  \/ TimeReturns(c)
  \/ ExchangeFails(c)
  \/ ExchangeReturns(c)
  \/ TextRead(c)
  \/ JsonRead(c)
  \/ Finish(c)

(* --------------------------- fetchAllPages ----------------------------- *)
Min(a, b) == IF a < b THEN a ELSE b

(* The endpoints fetchAllPages is called with, by the field of the        *)
(* response body that holds the page's items ("" for a bare array).        *)
Endpoints ==
  {[name |-> "repos.listForOrg", field |-> ""],
   [name |-> "apps.listReposAccessibleToInstallation", field |-> "repositories"],
   [name |-> "search", field |-> "items"],
   [name |-> "actions.listOrgSecrets", field |-> "secrets"],
   [name |-> "actions.listOrgVariables", field |-> "variables"]}

Items == {"a", "b"}

RECURSIVE SeqsUpTo(_)
SeqsUpTo(n) ==
  IF n = 0 THEN {<<>>}
  ELSE LET shorter == SeqsUpTo(n - 1)
       IN shorter \cup {Append(q, x) : q \in {r \in shorter : Len(r) = n - 1}, x \in Items}

(* The response of the endpoint to {page, per_page}: the page's slice of  *)
(* the collection, bare or under the endpoint's field; no item when       *)
(* per_page is not positive.                                               *)
pageResponse(ep, coll, page, per_page) ==
  LET first == (page - 1) * per_page + 1
      last == Min(page * per_page, Len(coll))
  IN [isArray |-> ep.field = "",
      field |-> ep.field,
      seq |-> IF per_page < 1 \/ first > Len(coll) THEN <<>>
              ELSE SubSeq(coll, first, last)]

(* "Handle different response structures" *)
extractData(response) ==
  IF response.isArray THEN response.seq
  ELSE IF response.field = "repositories" THEN response.seq
  ELSE IF response.field = "items" THEN response.seq
  ELSE <<>>

(* Math.min(options.perPage || defaultPerPage, maxPerPage) *)
computePerPage(opt) == Min(IF opt # 0 THEN opt ELSE defaultPerPage, maxPerPage)

(* results.push(...data) *)
appendPage(res, data) == res \o data

(* The catch block throwing a new error instead of the one caught. *)
rethrown_wrapped(error) == Err("Error", 0)

(* The catch block of fetchAllPages: what it throws for the error caught. *)
rethrown(error) == error

(* The last-page test taking a full page for the last one. *)
isLastPage_inclusive(data, per_page) == Len(data) <= per_page

(* "Check if we've reached the last page" *)
isLastPage(data, per_page) == Len(data) < per_page

NoPageResult == [kind |-> "none", value |-> <<>>, err |-> NoError]

(* fetchAllPages up to its first await. *)
FetchBegin ==
  /\ pgPc = "idle"
  /\ results' = <<>>
  /\ currentPage' = 1
  /\ perPage' = computePerPage(optPerPage)
  /\ requested' = <<1>>
  /\ pgPc' = "awaitPage"
  /\ UNCHANGED <<optPerPage, endpoint, collection, returned, fetchError, pgResult>>

(* The awaited page arrives: append, test, and either return or request   *)
(* the next page.                                                          *)
PageReturns ==
  /\ pgPc = "awaitPage"
  /\ LET response == pageResponse(endpoint, collection, currentPage, perPage)
         data == extractData(response)
     IN /\ results' = appendPage(results, data)
        /\ returned' = Append(returned, response)
        /\ IF isLastPage(data, perPage)
           THEN /\ pgPc' = "done"
                /\ pgResult' = [kind |-> "returned", value |-> results', err |-> NoError]
                /\ UNCHANGED <<currentPage, requested>>
           ELSE /\ currentPage' = currentPage + 1
                /\ requested' = Append(requested, currentPage')
                /\ UNCHANGED <<pgPc, pgResult>>
  /\ UNCHANGED <<optPerPage, endpoint, collection, perPage, fetchError>>

PageErrors == {Err("HttpError", 403), Err("HttpError", 500), Err("FetchFailed", 0)}

(* The awaited page fetch throws: the catch block logs and rethrows. *)
PageFails ==
  /\ pgPc = "awaitPage"
  /\ \E e \in PageErrors :
       /\ fetchError' = e
       /\ pgResult' = [kind |-> "threw", value |-> <<>>, err |-> rethrown(e)]
  /\ pgPc' = "threw"
  /\ UNCHANGED <<optPerPage, endpoint, collection, perPage, currentPage,
                 results, requested, returned>>

PerPageOptions == {0} \cup (1..MaxSmallPage) \cup {maxPerPage + 1}

PageInit ==
  /\ optPerPage \in PerPageOptions
  /\ endpoint \in Endpoints
  /\ collection \in SeqsUpTo(MaxItems)
  /\ pgPc = "idle"
  /\ perPage = 0
  /\ currentPage = 0
  /\ results = <<>>
  /\ requested = <<>>
  /\ returned = <<>>
  /\ fetchError = NoError
  /\ pgResult = NoPageResult

(* The options.perPage of any caller: those above and a negative one. *)
AnyPerPageOptions == PerPageOptions \cup {-1}

AnyPerPageInit ==
  /\ optPerPage \in AnyPerPageOptions
  /\ endpoint \in Endpoints
  /\ collection \in SeqsUpTo(MaxItems)
  /\ pgPc = "idle"
  /\ perPage = 0
  /\ currentPage = 0
  /\ results = <<>>
  /\ requested = <<>>
  /\ returned = <<>>
  /\ fetchError = NoError
  /\ pgResult = NoPageResult

(* A caller that has the result of one fetchAllPages call calls it again  *)
(* on the same endpoint with perPage set to the length of that result.    *)
NoDrain == [done |-> FALSE, value |-> <<>>, perPage |-> 0, calls |-> 0]

Redrain ==
  /\ pgPc = "done"
  /\ ~firstDrain.done
  /\ firstDrain' = [done |-> TRUE, value |-> pgResult.value,
                    perPage |-> perPage, calls |-> Len(requested)]
  /\ optPerPage' = Len(pgResult.value)
  /\ results' = <<>>
  /\ currentPage' = 1
  /\ perPage' = computePerPage(optPerPage')
  /\ requested' = <<1>>
  /\ returned' = <<>>
  /\ pgResult' = NoPageResult
  /\ pgPc' = "awaitPage"
  /\ UNCHANGED <<endpoint, collection, fetchError>>

RoundParked == firstDrain = NoDrain

(* --------------------------- retryWithBackoff -------------------------- *)
RETRY_CONFIG == [maxRetries |-> 3, baseDelay |-> 1000, maxDelay |-> 10000]

RECURSIVE pow2(_)
pow2(n) == IF n = 0 THEN 1 ELSE 2 * pow2(n - 1)

(* The exponential delay without its cap. *)
backoffBase_uncapped(config, att) == config.baseDelay * pow2(att - 1)

(* Math.min(config.baseDelay * Math.pow(2, attempt - 1), config.maxDelay) *)
backoffBase(config, att) == Min(config.baseDelay * pow2(att - 1), config.maxDelay)

(* Math.random() in thousandths: a number in [0, 1). *)
Randoms == {0, 500, 999}

(* baseDelay + Math.random() * 0.1 * baseDelay, in whole ms. *)
backoffDelay(config, att, random) ==
  backoffBase(config, att) + (random * backoffBase(config, att)) \div 10000

(* The test after a failed attempt made one attempt too late. *)
retriesExhausted_late(config, att) == att > config.maxRetries

(* if (attempt === config.maxRetries) *)
retriesExhausted(config, att) == att = config.maxRetries

(* The catch block throwing a new error made from the one caught. *)
thrownError_wrapped(error) == Err("RetryError", error.status)

(* throw error: what the catch block throws for the error caught. *)
thrownError(error) == error

NoRetryResult == [kind |-> "none", value |-> <<>>, err |-> NoError]

(* retryWithBackoff up to its first await: fn is invoked for attempt 1. *)
RetryCall ==
  /\ rtPc = "idle"
  /\ attempt' = 1
  /\ fnCalls' = fnCalls + 1
  /\ rtPc' = "awaitFn"
  /\ UNCHANGED <<rtConfig, lastError, rtResult, fnErrors, fnValues, slept>>

(* fn resolves with value: return await fn(). *)
RetryFnReturns(value) ==
  /\ rtPc = "awaitFn"
  /\ rtResult' = [kind |-> "returned", value |-> value, err |-> NoError]
  /\ rtPc' = "returned"
  /\ fnValues' = Append(fnValues, value)
  /\ UNCHANGED <<rtConfig, attempt, lastError, fnCalls, fnErrors, slept>>

(* fn rejects with error: the catch block, up to its throw or its sleep. *)
RetryFnThrows(error) ==
  /\ rtPc = "awaitFn"
  /\ lastError' = error
  /\ fnErrors' = Append(fnErrors, error)
  /\ IF retriesExhausted(rtConfig, attempt)
     THEN /\ rtResult' = [kind |-> "threw", value |-> <<>>, err |-> thrownError(error)]
          /\ rtPc' = "threw"
          /\ UNCHANGED slept
     ELSE /\ \E random \in Randoms :
               slept' = Append(slept, backoffDelay(rtConfig, attempt, random))
          /\ rtPc' = "sleeping"
          /\ UNCHANGED rtResult
  /\ UNCHANGED <<rtConfig, attempt, fnCalls, fnValues>>

(* The sleep ends: attempt++, the loop test, and the next invocation of   *)
(* fn or, the loop left, throw lastError.                                  *)
RetryWakes ==
  /\ rtPc = "sleeping"
  /\ attempt' = attempt + 1
  /\ IF attempt' <= rtConfig.maxRetries
     THEN /\ fnCalls' = fnCalls + 1
          /\ rtPc' = "awaitFn"
          /\ UNCHANGED rtResult
     ELSE /\ rtResult' = [kind |-> "threw", value |-> <<>>, err |-> lastError]
          /\ rtPc' = "threw"
          /\ UNCHANGED fnCalls
  /\ UNCHANGED <<rtConfig, lastError, fnErrors, fnValues, slept>>

(* The operations retryWithBackoff is given: what an invocation may       *)
(* resolve with or reject with.                                            *)
OpValues == {<<"a">>, <<"a", "b">>}
OpErrors == {Err("HttpError", 404), Err("HttpError", 500), Err("FetchFailed", 0)}

OpReturns == \E value \in OpValues : RetryFnReturns(value) /\ UNCHANGED pageLog
OpThrows == \E error \in OpErrors : RetryFnThrows(error) /\ UNCHANGED pageLog

(* The configurations: the default one, and others with fewer or more    *)
(* attempts and with a cap the second delay already reaches.               *)
MaxDelays == {RETRY_CONFIG.maxDelay, RETRY_CONFIG.baseDelay + RETRY_CONFIG.baseDelay \div 2}

RetryConfigs ==
  {[RETRY_CONFIG EXCEPT !.maxRetries = k, !.maxDelay = d] :
     k \in 1..MaxConfigRetries, d \in MaxDelays}

RetryIdle ==
  /\ rtPc = "idle"
  /\ attempt = 0
  /\ lastError = NoError
  /\ rtResult = NoRetryResult
  /\ fnCalls = 0
  /\ fnErrors = <<>>
  /\ fnValues = <<>>
  /\ slept = <<>>
  /\ pageLog = <<>>

RetryInit == rtConfig \in RetryConfigs /\ RetryIdle

(* No retryWithBackoff call is part of the run. *)
RetryParked == rtConfig = RETRY_CONFIG /\ RetryIdle

(* ------------------ retryWithBackoff around fetchAllPages -------------- *)
(* fn is async () => await fetchAllPages(apiCall, { perPage: 100 }): each *)
(* invocation of fn is a fetchAllPages call of its own.                    *)
FetchAgain ==
  /\ results' = <<>>
  /\ currentPage' = 1
  /\ perPage' = computePerPage(optPerPage)
  /\ requested' = <<1>>
  /\ returned' = <<>>
  /\ fetchError' = NoError
  /\ pgResult' = NoPageResult
  /\ pgPc' = "awaitPage"
  /\ UNCHANGED <<optPerPage, endpoint, collection>>

(* retryWithBackoff and the first invocation of fn, up to the request of  *)
(* page 1.                                                                 *)
RetriedFetchCall ==
  /\ RetryCall
  /\ FetchBegin
  /\ pageLog' = Append(pageLog, 1)

(* A page arrives: fetchAllPages requests the next one, or returns, and   *)
(* then fn resolves and retryWithBackoff returns.                          *)
RetriedPageReturns ==
  /\ rtPc = "awaitFn"
  /\ PageReturns
  /\ IF pgPc' = "done"
     THEN RetryFnReturns(pgResult'.value) /\ UNCHANGED pageLog
     ELSE /\ pageLog' = Append(pageLog, currentPage')
          /\ UNCHANGED <<rtConfig, rtPc, attempt, lastError, rtResult, fnCalls,
                         fnErrors, fnValues, slept>>

(* A page fetch throws: fetchAllPages rethrows, fn rejects, and the catch *)
(* block of retryWithBackoff runs.                                         *)
RetriedPageFails ==
  /\ rtPc = "awaitFn"
  /\ PageFails
  /\ RetryFnThrows(pgResult'.err)
  /\ UNCHANGED pageLog

(* The sleep ends and fn is invoked again. *)
RetriedFetchWakes ==
  /\ RetryWakes
  /\ IF rtPc' = "awaitFn"
     THEN FetchAgain /\ pageLog' = Append(pageLog, 1)
     ELSE UNCHANGED pageVars /\ UNCHANGED pageLog

(* The collection of n items numbered 1..n. *)
Numbered(n) == [i \in 1..n |-> i]

(* The call sites: listOrgSecrets and listReposAccessibleToInstallation   *)
(* with perPage 100, on collections of up to MaxFullPages full pages and  *)
(* one item.                                                               *)
RetriedEndpoints ==
  {ep \in Endpoints : ep.name \in {"actions.listOrgSecrets",
                                   "apps.listReposAccessibleToInstallation"}}

RetriedSizes ==
  {0, 1} \cup {k * maxPerPage : k \in 1..MaxFullPages}
         \cup {k * maxPerPage + 1 : k \in 1..MaxFullPages}

RetriedPageInit ==
  /\ optPerPage = maxPerPage
  /\ endpoint \in RetriedEndpoints
  /\ collection \in {Numbered(n) : n \in RetriedSizes}
  /\ pgPc = "idle"
  /\ perPage = 0
  /\ currentPage = 0
  /\ results = <<>>
  /\ requested = <<>>
  /\ returned = <<>>
  /\ fetchError = NoError
  /\ pgResult = NoPageResult

(* --------------------------- the batch engine -------------------------- *)
(* What the paginated fetch of one repository's secrets or variables      *)
(* settles with: an array of one item, an empty array, or an error.       *)
Fetched == [kind |-> "ok", status |-> 200]
FetchedNone == [kind |-> "empty", status |-> 200]
Failed(st) == [kind |-> "error", status |-> st]

FetchOutcomes == {Fetched, FetchedNone, Failed(403), Failed(404), Failed(500)}

Repos == 1..repoCount

(* repos.slice(i, i + batchSize) widened by one. *)
batchSlice_wide(i, n) == (i + 1)..Min(i + batchSize + 1, n)

(* repos.slice(i, i + batchSize), as the set of its repositories. *)
batchSlice(i, n) == (i + 1)..Min(i + batchSize, n)

(* The per-repository function letting errors other than a 404 escape. *)
taskOutcome_rethrows(eng, e, fetched) ==
  IF fetched.kind = "ok" THEN [rejected |-> FALSE, value |-> <<e>>, err |-> NoError]
  ELSE IF fetched.kind = "empty" \/ fetched.status = 404
       THEN [rejected |-> FALSE, value |-> <<>>, err |-> NoError]
  ELSE [rejected |-> TRUE, value |-> <<>>, err |-> Err("HttpError", fetched.status)]

(* What the promise of repository e settles with.  fetchRepositorySecrets *)
(* maps the array fetched and returns [] for every error;                 *)
(* fetchRepositoryVariables returns [] for a 404 or 403 and rethrows any  *)
(* other error, which the .catch of the batch turns into [].              *)
taskOutcome(eng, e, fetched) ==
  IF fetched.kind = "ok" THEN [rejected |-> FALSE, value |-> <<e>>, err |-> NoError]
  ELSE IF fetched.kind = "empty" THEN [rejected |-> FALSE, value |-> <<>>, err |-> NoError]
  ELSE IF eng = "secrets" THEN [rejected |-> FALSE, value |-> <<>>, err |-> NoError]
  ELSE IF fetched.status = 404 \/ fetched.status = 403
       THEN [rejected |-> FALSE, value |-> <<>>, err |-> NoError]
  ELSE [rejected |-> FALSE, value |-> <<>>, err |-> NoError]

(* The error lines the per-repository function prints for a fetch that   *)
(* failed with a 403: fetchRepositorySecrets calls logError for every     *)
(* error but a 404, fetchRepositoryVariables returns [] without a word.   *)
deniedLogLines(eng, fetched) ==
  IF fetched.kind # "error" \/ fetched.status # 403 THEN 0
  ELSE IF eng = "secrets" THEN 1
  ELSE 0

(* Promise.all storing each value at the position of arrival. *)
slotOf_arrival(e, first, arrived) == first + arrived

(* Promise.all: the value of a promise is stored at the promise's index. *)
slotOf(e, first, arrived) == e

(* The delay test holding after every batch. *)
needsDelay_always(i, n) == TRUE

(* if (i + batchSize < repos.length) *)
needsDelay(i, n) == i + batchSize < n

NoSlot == [set |-> FALSE, value |-> <<>>]

(* batchResults.forEach(secrets => allSecrets.push(...secrets)) *)
RECURSIVE mergeBatch(_, _, _, _)
mergeBatch(all, slots, from, to) ==
  IF from > to THEN all
  ELSE mergeBatch(all \o slots[from].value, slots, from + 1, to)

(* The loop body up to await Promise.all: every promise of the batch is   *)
(* created and runs to the request of its first page.                      *)
StartBatch(i) ==
  /\ bi' = i
  /\ task' = [e \in Repos |-> IF e \in batchSlice(i, repoCount)
                                THEN "inflight" ELSE task[e]]
  /\ batchResults' = [e \in Repos |-> NoSlot]
  /\ btPc' = "awaitAll"

(* i += batchSize and the loop test: the next batch or the return. *)
NextIteration ==
  IF bi + batchSize < repoCount
  THEN StartBatch(bi + batchSize)
  ELSE /\ bi' = bi + batchSize
       /\ btPc' = "returned"
       /\ UNCHANGED <<task, batchResults>>

(* The engine is called and requests the list of repositories. *)
BatchCall ==
  /\ btPc = "idle"
  /\ btPc' = "listing"
  /\ UNCHANGED <<engine, repoCount, plan, bi, task, batchResults, allSecrets,
                 processedCount, btSlept, deniedReports, btError>>

(* The list of repositories cannot be fetched: the engine throws. *)
ListingFails ==
  /\ btPc = "listing"
  /\ \E e \in PageErrors : btError' = e
  /\ btPc' = "listFailed"
  /\ UNCHANGED <<engine, repoCount, plan, bi, task, batchResults, allSecrets,
                 processedCount, btSlept, deniedReports>>

(* The list of repositories arrives: the loop starts, or ends at once.    *)
ReposListed ==
  /\ btPc = "listing"
  /\ IF 0 < repoCount
     THEN StartBatch(0)
     ELSE /\ btPc' = "returned"
          /\ UNCHANGED <<bi, task, batchResults>>
  /\ UNCHANGED <<engine, repoCount, plan, allSecrets, processedCount, btSlept,
                 deniedReports, btError>>

(* The fetch of repository e settles, and with it the promise of e. *)
TaskSettles(e) ==
  /\ btPc = "awaitAll"
  /\ task[e] = "inflight"
  /\ LET out == taskOutcome(engine, e, plan[e])
         first == bi + 1
         arrived == Cardinality({d \in batchSlice(bi, repoCount) : task[d] = "settled"})
     IN /\ task' = [task EXCEPT ![e] = "settled"]
        /\ deniedReports' = deniedReports + deniedLogLines(engine, plan[e])
        /\ IF out.rejected
           THEN /\ btPc' = "threw"
                /\ btError' = out.err
                /\ UNCHANGED <<batchResults, processedCount>>
           ELSE /\ batchResults' =
                     [batchResults EXCEPT ![slotOf(e, first, arrived)] =
                                             [set |-> TRUE, value |-> out.value]]
                /\ processedCount' = IF engine = "secrets" THEN processedCount + 1
                                     ELSE processedCount
                /\ UNCHANGED <<btPc, btError>>
  /\ UNCHANGED <<engine, repoCount, plan, bi, allSecrets, btSlept>>

(* Every promise of the batch is fulfilled: Promise.all resolves, the     *)
(* results are merged, and the engine sleeps or goes on.                   *)
BatchSettles ==
  /\ btPc = "awaitAll"
  /\ \A e \in Repos : task[e] # "inflight"
  /\ allSecrets' = mergeBatch(allSecrets, batchResults, bi + 1,
                              Min(bi + batchSize, repoCount))
  /\ IF needsDelay(bi, repoCount)
     THEN /\ btSlept' = Append(btSlept, interBatchDelay)
          /\ btPc' = "sleeping"
          /\ UNCHANGED <<bi, task, batchResults>>
     ELSE /\ NextIteration
          /\ UNCHANGED btSlept
  /\ UNCHANGED <<engine, repoCount, plan, processedCount, deniedReports, btError>>

(* The delay between two batches ends. *)
BatchWakes ==
  /\ btPc = "sleeping"
  /\ NextIteration
  /\ UNCHANGED <<engine, repoCount, plan, allSecrets, processedCount, btSlept,
                 deniedReports, btError>>

(* The numbers of repositories and the answers of their fetches a run may *)
(* meet: every repository alike, one repository unlike the others, the    *)
(* first k denied, and the answers in rotation.                            *)
RepoCounts == {0, 1, batchSize, batchSize + 1, 2 * batchSize, MaxRepos}

Rotation == <<Fetched, Failed(403), FetchedNone, Failed(500), Failed(404)>>

Plans(n) ==
  {[e \in 1..n |-> o] : o \in FetchOutcomes}
  \cup {[e \in 1..n |-> IF e = x THEN o ELSE Fetched] : x \in 1..n, o \in FetchOutcomes}
  \cup {[e \in 1..n |-> IF e <= k THEN Failed(403) ELSE Fetched] : k \in 1..n}
  \cup {[e \in 1..n |-> Rotation[(e % 5) + 1]]}

BatchIdle ==
  /\ btPc = "idle"
  /\ bi = 0
  /\ task = [e \in Repos |-> "notStarted"]
  /\ batchResults = [e \in Repos |-> NoSlot]
  /\ allSecrets = <<>>
  /\ processedCount = 0
  /\ btSlept = <<>>
  /\ deniedReports = 0
  /\ btError = NoError

BatchInit ==
  /\ engine \in {"secrets", "variables"}
  /\ repoCount \in RepoCounts
  /\ plan \in Plans(repoCount)
  /\ BatchIdle

(* No batch engine call is part of the run. *)
BatchParked ==
  /\ engine = "secrets"
  /\ repoCount = 0
  /\ plan = <<>>
  /\ BatchIdle

(* -------------------------- the team hierarchy ------------------------- *)
(* team.parent?.slug || null of a team without parent. *)
NoParent == "(null)"

Team(slug, parent) == [slug |-> slug, parent |-> parent]

Slugs(ts) == {ts[i].slug : i \in 1..Len(ts)}

(* "Build children arrays": the slugs of the teams whose parent is p, in  *)
(* the order of the list.                                                  *)
RECURSIVE childrenOf(_, _)
childrenOf(ts, p) ==
  IF ts = <<>> THEN <<>>
  ELSE LET rest == childrenOf(SubSeq(ts, 1, Len(ts) - 1), p)
           last == ts[Len(ts)]
       IN IF last.parent # NoParent /\ last.parent = p
          THEN Append(rest, last.slug) ELSE rest

(* The hierarchy without the second loop: no team gets a child. *)
buildTeamHierarchy_noChildren(ts) ==
  [slug \in Slugs(ts) |->
     [parent |-> ts[CHOOSE i \in 1..Len(ts) :
                      /\ ts[i].slug = slug
                      /\ \A j \in (i + 1)..Len(ts) : ts[j].slug # slug].parent,
      children |-> <<>>]]

(* The two loops of buildTeamHierarchy: an entry {parent, children: []}   *)
(* for every team, then every team with a parent that has an entry is     *)
(* pushed to the children of that entry.                                   *)
buildTeamHierarchy(ts) ==
  [slug \in Slugs(ts) |->
     [parent |-> ts[CHOOSE i \in 1..Len(ts) :
                      /\ ts[i].slug = slug
                      /\ \A j \in (i + 1)..Len(ts) : ts[j].slug # slug].parent,
      children |-> childrenOf(ts, slug)]]

(* new Set() filled by forEach(member => childMembers.add(member.username)) *)
addAll(set, members) == set \cup {members[i] : i \in 1..Len(members)}

RECURSIVE filterOut(_, _)
filterOut(members, excluded) ==
  IF members = <<>> THEN <<>>
  ELSE LET rest == filterOut(SubSeq(members, 1, Len(members) - 1), excluded)
           last == members[Len(members)]
       IN IF last \in excluded THEN rest ELSE Append(rest, last)

(* The parent team keeping the members of its child teams. *)
directMembersOf_all(members, inChildren) == members

(* allMembers.filter(member => !childMembers.has(member.username)) *)
directMembersOf(members, inChildren) == filterOut(members, inChildren)

(* What one getTeamMemberDetails call returns: the members reported, or   *)
(* [] when the fetch of the member list failed.                            *)
memberDetailsOf(slug, fetchOk) == IF fetchOk THEN rawMembers[slug] ELSE <<>>

hierarchyInfo == teamHierarchy[teamSlug]

(* The exclusion of the child teams' members applied to every team that   *)
(* has children, with or without a parent.                                 *)
excludesChildMembers_anyParent(parentTeamSlug, childTeamSlugs) ==
  Len(childTeamSlugs) > 0

(* if (!parentTeamSlug && childTeamSlugs.length > 0) *)
excludesChildMembers(parentTeamSlug, childTeamSlugs) ==
  parentTeamSlug = NoParent /\ Len(childTeamSlugs) > 0

(* enrichTeamsWithFullData: the hierarchy is built and the member details *)
(* of the team are requested.                                              *)
EnrichTeam ==
  /\ tmPc = "idle"
  /\ teamHierarchy' = buildTeamHierarchy(teams)
  /\ tmPc' = "awaitDetails"
  /\ UNCHANGED <<teams, rawMembers, teamSlug, memberDetails, allMembers,
                 childMembers, childIdx, directMembers, dmFetches>>

(* getTeamMemberDetails settles; the repository permissions are requested. *)
DetailsFetched ==
  /\ tmPc = "awaitDetails"
  /\ \E fetchOk \in BOOLEAN : memberDetails' = memberDetailsOf(teamSlug, fetchOk)
  /\ tmPc' = "awaitRepos"
  /\ UNCHANGED <<teams, rawMembers, teamSlug, teamHierarchy, allMembers,
                 childMembers, childIdx, directMembers, dmFetches>>

(* getTeamRepoPermissions settles; getDirectMembersOnly is called and      *)
(* requests the members of the team.                                       *)
ReposFetched ==
  /\ tmPc = "awaitRepos"
  /\ tmPc' = "awaitAllMembers"
  /\ UNCHANGED <<teams, rawMembers, teamSlug, teamHierarchy, memberDetails,
                 allMembers, childMembers, childIdx, directMembers, dmFetches>>

(* getDirectMembersOnly after const allMembers: the three cases. *)
AllMembersFetched ==
  /\ tmPc = "awaitAllMembers"
  /\ \E fetchOk \in BOOLEAN :
       /\ allMembers' = memberDetailsOf(teamSlug, fetchOk)
       /\ dmFetches' = Append(dmFetches, [slug |-> teamSlug, ok |-> fetchOk,
                                          value |-> allMembers'])
  /\ LET parentTeamSlug == hierarchyInfo.parent
         childTeamSlugs == hierarchyInfo.children
     IN IF parentTeamSlug = NoParent /\ Len(childTeamSlugs) = 0
        THEN /\ directMembers' = allMembers'
             /\ tmPc' = "done"
             /\ UNCHANGED <<childMembers, childIdx>>
        ELSE IF excludesChildMembers(parentTeamSlug, childTeamSlugs)
        THEN /\ childMembers' = {}
             /\ childIdx' = 1
             /\ tmPc' = "awaitChild"
             /\ UNCHANGED directMembers
        ELSE /\ directMembers' = allMembers'
             /\ tmPc' = "done"
             /\ UNCHANGED <<childMembers, childIdx>>
  /\ UNCHANGED <<teams, rawMembers, teamSlug, teamHierarchy, memberDetails>>

(* The members of one child team arrive: the next child is requested, or  *)
(* the direct members are filtered and returned.                           *)
ChildMembersFetched ==
  /\ tmPc = "awaitChild"
  /\ LET childSlug == hierarchyInfo.children[childIdx] IN
     \E fetchOk \in BOOLEAN :
       LET childMemberDetails == memberDetailsOf(childSlug, fetchOk) IN
       /\ childMembers' = addAll(childMembers, childMemberDetails)
       /\ dmFetches' = Append(dmFetches, [slug |-> childSlug, ok |-> fetchOk,
                                          value |-> childMemberDetails])
  /\ IF childIdx < Len(hierarchyInfo.children)
     THEN /\ childIdx' = childIdx + 1
          /\ UNCHANGED <<tmPc, directMembers>>
     ELSE /\ directMembers' = directMembersOf(allMembers, childMembers')
          /\ tmPc' = "done"
          /\ UNCHANGED childIdx
  /\ UNCHANGED <<teams, rawMembers, teamSlug, teamHierarchy, memberDetails,
                 allMembers>>

(* The organizations: the teams in the order teams.list returns them.     *)
Organizations ==
  {<<Team("platform", NoParent), Team("platform-backend", "platform")>>,
   <<Team("platform-backend", "platform"), Team("platform", NoParent)>>,
   <<Team("platform", NoParent), Team("platform-backend", "platform"),
     Team("platform-frontend", "platform")>>,
   <<Team("platform", NoParent), Team("platform-backend", "platform"),
     Team("api", "platform-backend")>>,
   <<Team("docs", NoParent)>>,
   <<Team("docs", NoParent), Team("guests", "external")>>}

Users == 1..MaxUsers

(* The member lists an endpoint may report: users in ascending order. *)
RECURSIVE MemberLists(_)
MemberLists(n) ==
  IF n = 0 THEN {<<>>}
  ELSE MemberLists(n - 1) \cup {Append(l, n) : l \in MemberLists(n - 1)}

TeamIdle ==
  /\ teamHierarchy = <<>>
  /\ tmPc = "idle"
  /\ memberDetails = <<>>
  /\ allMembers = <<>>
  /\ childMembers = {}
  /\ childIdx = 0
  /\ directMembers = <<>>
  /\ dmFetches = <<>>

TeamInit ==
  /\ teams \in Organizations
  /\ rawMembers \in [Slugs(teams) -> MemberLists(MaxUsers)]
  /\ teamSlug \in Slugs(teams)
  /\ TeamIdle

(* No team is enriched in the run. *)
TeamParked ==
  /\ teams = <<>>
  /\ rawMembers = <<>>
  /\ teamSlug = ""
  /\ TeamIdle

(* No fetchAllPages call is part of the run. *)
PageParked ==
  /\ optPerPage = 0
  /\ endpoint = [name |-> "repos.listForOrg", field |-> ""]
  /\ collection = <<>>
  /\ pgPc = "idle"
  /\ perPage = 0
  /\ currentPage = 0
  /\ results = <<>>
  /\ requested = <<>>
  /\ returned = <<>>
  /\ fetchError = NoError
  /\ pgResult = NoPageResult

(* No getOctokitClient call is part of the run. *)
TokenParked ==
  /\ now = 0
  /\ envFile = [exists |-> FALSE, lines |-> <<>>]
  /\ cfgBuild = "v2"
  /\ cfgToken = Undefined
  /\ cfgExpires = Undefined
  /\ octokitInstance = NoInstance
  /\ pc = [c \in Callers |-> "idle"]
  /\ token = [c \in Callers |-> Undefined]
  /\ resp = [c \in Callers |-> NoResp]
  /\ jwtOf = [c \in Callers |-> NoJwt]
  /\ result = [c \in Callers |-> NoResult]
  /\ timeReqs = 0
  /\ exchangeReqs = 0
  /\ issued = 0
  /\ hookCalls = [c \in Callers |-> <<>>]
  /\ calls = 0

(* ------------------------- the command handlers ------------------------ *)
(* A command line: the command, --scope (secrets, variables), --fetch,    *)
(* whether the organization is given as argument (teams, webhooks,        *)
(* secrets), and --refresh (token).                                        *)
Command(name, scope, fetch, orgGiven, refresh) ==
  [name |-> name, scope |-> scope, fetch |-> fetch, orgGiven |-> orgGiven,
   refresh |-> refresh]

(* const scope = options.scope || 'both' *)
Scopes == {"org", "repo", "both"}

Commands ==
  {Command("repos", "", f, FALSE, FALSE) : f \in BOOLEAN}
  \cup {Command(n, "", f, g, FALSE) : n \in {"teams", "webhooks"}, f \in BOOLEAN,
                                       g \in BOOLEAN}
  \cup {Command("secrets", sc, f, g, FALSE) : sc \in Scopes, f \in BOOLEAN,
                                              g \in BOOLEAN}
  \cup {Command("variables", sc, f, FALSE, FALSE) : sc \in Scopes, f \in BOOLEAN}

(* The errors a paginated listing may throw, and those getOctokitClient   *)
(* may throw.                                                              *)
ListingErrors == PageErrors \cup {Err("HttpError", 404)}
CredentialErrors == {Err("GitHubAPIError", 401), Err("FailedToCreateJWT", 0)}

Failure(at, e) == [at |-> at, err |-> e]

(* if (!org) org = await getInstallationOrg(octokit); the variables       *)
(* command always detects the organization, the repos command never.      *)
needsOrgDetection(c) ==
  IF c.name = "variables" THEN TRUE
  ELSE IF c.name = "repos" THEN FALSE
  ELSE ~c.orgGiven

(* The first listing the handler awaits. *)
firstFetch(c) ==
  IF c.name \in {"repos", "teams", "webhooks"} THEN "awaitListing"
  ELSE IF c.scope = "org" \/ c.scope = "both" THEN "awaitOrgItems"
  ELSE "awaitRepoItems"

(* Where the catch block of the handler leaves the invocation:            *)
(* handleSecretsCommand rethrows, the other handlers return.               *)
caught(c) == IF c.name = "secrets" THEN "threw" ELSE "returned"

(* "Output results" of the handler for the items collected.  The secrets  *)
(* and variables commands write no file for an empty list; the variables  *)
(* command prints its summary before it exports.                           *)
writesCsv(c, items) ==
  /\ c.fetch
  /\ c.name \in {"secrets", "variables"} => items # {}

callsDisplay(c, items) == ~c.fetch

Output(items) ==
  /\ exported' = writesCsv(cmd, items)
  /\ displayed' = callsDisplay(cmd, items)
  /\ cmdPc' = "returned"

(* The handler is entered and awaits getOctokitClient. *)
CommandCall ==
  /\ cmdPc = "idle"
  /\ cmd.name # "token"
  /\ cmdPc' = "awaitClient"
  /\ UNCHANGED <<cmd, cmdFailures, cmdItems, displayed, exported>>

(* getOctokitClient throws: the catch block of the handler. *)
ClientFails ==
  /\ cmdPc = "awaitClient"
  /\ cmd.name # "token"
  /\ \E e \in CredentialErrors :
       cmdFailures' = cmdFailures \cup {Failure("credential", e)}
  /\ cmdPc' = caught(cmd)
  /\ UNCHANGED <<cmd, cmdItems, displayed, exported>>

(* getOctokitClient returns the client. *)
ClientReturns ==
  /\ cmdPc = "awaitClient"
  /\ cmd.name # "token"
  /\ cmdPc' = IF needsOrgDetection(cmd) THEN "awaitOrg" ELSE firstFetch(cmd)
  /\ UNCHANGED <<cmd, cmdFailures, cmdItems, displayed, exported>>

(* getInstallationOrg returns the organization, or null: displayError and *)
(* return.                                                                 *)
OrgDetected ==
  /\ cmdPc = "awaitOrg"
  /\ \E found \in BOOLEAN :
       cmdPc' = IF found THEN firstFetch(cmd) ELSE "returned"
  /\ UNCHANGED <<cmd, cmdFailures, cmdItems, displayed, exported>>

(* repos, teams, webhooks: fetchAllPages of the listing throws. *)
ListingThrows ==
  /\ cmdPc = "awaitListing"
  /\ \E e \in ListingErrors :
       cmdFailures' = cmdFailures \cup {Failure("listing", e)}
  /\ cmdPc' = caught(cmd)
  /\ UNCHANGED <<cmd, cmdItems, displayed, exported>>

(* repos, teams, webhooks: the listing arrives.  The repos command        *)
(* outputs it; teams and webhooks enrich it first.                         *)
ListingReturns ==
  /\ cmdPc = "awaitListing"
  /\ \E has \in BOOLEAN :
       /\ cmdItems' = IF has THEN {"list"} ELSE {}
       /\ IF cmd.name = "repos"
          THEN Output(cmdItems')
          ELSE /\ cmdPc' = "awaitEnrich"
               /\ UNCHANGED <<displayed, exported>>
  /\ UNCHANGED <<cmd, cmdFailures>>

(* teams, webhooks: the enrichment, which contains its failures, returns. *)
EnrichReturns ==
  /\ cmdPc = "awaitEnrich"
  /\ Output(cmdItems)
  /\ UNCHANGED <<cmd, cmdFailures, cmdItems>>

(* After the organization-level items: the repository level, or output.  *)
AfterOrgItems(items) ==
  IF cmd.scope = "both"
  THEN cmdPc' = "awaitRepoItems" /\ UNCHANGED <<displayed, exported>>
  ELSE Output(items)

(* secrets, variables: the listing of the organization's items throws.    *)
(* handleSecretsCommand fails for --scope org and goes on otherwise;      *)
(* fetchOrganizationVariables returns [] for a 404 and rethrows any other *)
(* error to the catch block of handleVariablesCommand.                     *)
OrgItemsThrow ==
  /\ cmdPc = "awaitOrgItems"
  /\ \E e \in ListingErrors :
       /\ cmdFailures' = cmdFailures \cup {Failure("orgListing", e)}
       /\ IF cmd.name = "secrets"
          THEN /\ cmdPc' = IF cmd.scope = "org" THEN "threw" ELSE "awaitRepoItems"
               /\ UNCHANGED <<displayed, exported>>
          ELSE IF e.status = 404
               THEN AfterOrgItems(cmdItems)
               ELSE /\ cmdPc' = "returned"
                    /\ UNCHANGED <<displayed, exported>>
  /\ UNCHANGED <<cmd, cmdItems>>

(* secrets, variables: the organization's items arrive. *)
OrgItemsReturn ==
  /\ cmdPc = "awaitOrgItems"
  /\ \E has \in BOOLEAN :
       /\ cmdItems' = IF has THEN cmdItems \cup {"organization"} ELSE cmdItems
       /\ AfterOrgItems(cmdItems')
  /\ UNCHANGED <<cmd, cmdFailures>>

(* secrets, variables: the listing of the repositories throws.            *)
(* handleSecretsCommand fails for --scope repo and outputs what it has    *)
(* otherwise; handleVariablesCommand outputs nothing.                      *)
RepoItemsThrow ==
  /\ cmdPc = "awaitRepoItems"
  /\ \E e \in ListingErrors :
       cmdFailures' = cmdFailures \cup {Failure("repoListing", e)}
  /\ IF cmd.name = "secrets"
     THEN IF cmd.scope = "repo"
          THEN cmdPc' = "threw" /\ UNCHANGED <<displayed, exported>>
          ELSE Output(cmdItems)
     ELSE cmdPc' = "returned" /\ UNCHANGED <<displayed, exported>>
  /\ UNCHANGED <<cmd, cmdItems>>

(* secrets, variables: the items of the repositories arrive. *)
RepoItemsReturn ==
  /\ cmdPc = "awaitRepoItems"
  /\ \E has \in BOOLEAN :
       /\ cmdItems' = IF has THEN cmdItems \cup {"repository"} ELSE cmdItems
       /\ Output(cmdItems')
  /\ UNCHANGED <<cmd, cmdFailures>>

(* ------------------------- the webhook secrets ------------------------- *)
(* Two runs of the webhooks command on one webhook, alike in everything   *)
(* but the webhook's config.secret, taking the same steps.                 *)
Runs == {1, 2}

Masked == Text("***configured***", 0)
NotConfigured == Text("not configured", 0)

(* The config.secret of the webhook in the answers of listWebhooks and    *)
(* getWebhook: absent, or the value the API reports.                       *)
SecretFields == {Undefined, Text("secret", 1), Text("secret", 2)}

(* secret: webhookDetails.config?.secret ? '***configured***' : 'not configured' *)
maskedSecret(secret) == IF Truthy(secret) THEN Masked ELSE NotConfigured

(* config: webhook.config || {} of the catch block, read at .secret *)
fallbackSecret(secret) == secret

(* webhook.config?.secret || '' of generateWebhooksCSV *)
csvSecretCell(secret) == IF Truthy(secret) THEN secret ELSE EmptyStr

(* webhook.config?.secret || 'Not configured' of displayRepositoryWebhooks *)
displayedSecret(secret) == IF Truthy(secret) THEN secret ELSE Text("Not configured", 0)

(* Nothing about the secret was output. *)
NothingShown == Null

(* listWebhooks returns the webhook; its details are requested. *)
WebhooksListed ==
  /\ whPc = "idle"
  /\ whPc' = "awaitDetail"
  /\ UNCHANGED <<whSecret, whMode, whDetailed, whConfig, whShown>>

(* listWebhooks throws: the repository is kept with no webhooks. *)
WebhooksUnlisted ==
  /\ whPc = "idle"
  /\ whPc' = "skipped"
  /\ UNCHANGED <<whSecret, whMode, whDetailed, whConfig, whShown>>

(* getWebhook returns: the enriched webhook is built from the details. *)
DetailReturns ==
  /\ whPc = "awaitDetail"
  /\ whDetailed' = TRUE
  /\ whConfig' = [r \in Runs |-> maskedSecret(whSecret[r])]
  /\ whPc' = "enriched"
  /\ UNCHANGED <<whSecret, whMode, whShown>>

(* getWebhook throws: the enriched webhook is built from the list entry. *)
DetailFails ==
  /\ whPc = "awaitDetail"
  /\ whDetailed' = FALSE
  /\ whConfig' = [r \in Runs |-> fallbackSecret(whSecret[r])]
  /\ whPc' = "enriched"
  /\ UNCHANGED <<whSecret, whMode, whShown>>

(* handleWebhooksCommand outputs the webhook: a CSV row with --fetch, the *)
(* lines of displayRepositoryWebhooks otherwise, the secret among them    *)
(* with --detailed only.                                                   *)
WebhookOutput ==
  /\ whPc = "enriched"
  /\ whShown' = [r \in Runs |->
                   IF whMode = "csv" THEN csvSecretCell(whConfig[r])
                   ELSE IF whMode = "detailed" THEN displayedSecret(whConfig[r])
                   ELSE NothingShown]
  /\ whPc' = "shown"
  /\ UNCHANGED <<whSecret, whMode, whDetailed, whConfig>>

HookIdle ==
  /\ whPc = "idle"
  /\ whDetailed = FALSE
  /\ whConfig = [r \in Runs |-> Undefined]
  /\ whShown = [r \in Runs |-> NothingShown]

HookInit ==
  /\ whSecret \in [Runs -> SecretFields]
  /\ whMode \in {"csv", "detailed", "brief"}
  /\ HookIdle

(* No webhook is enriched in the run. *)
HookParked ==
  /\ whSecret = [r \in Runs |-> Undefined]
  /\ whMode = "brief"
  /\ HookIdle

(* ------------------------------ token.js ------------------------------- *)
TokenCommands == {Command("token", "", FALSE, FALSE, r) : r \in BOOLEAN}

(* handleTokenCommand: with --refresh refreshTokenForce is entered and    *)
(* calls getOctokitClient; without, the token information is displayed.   *)
TokenCommandCall(c) ==
  /\ cmdPc = "idle"
  /\ cmd.name = "token"
  /\ IF cmd.refresh
     THEN /\ AwaitedCall(c)
          /\ cmdPc' = "awaitClient"
          /\ UNCHANGED displayed
     ELSE /\ displayed' = TRUE
          /\ cmdPc' = "returned"
          /\ UNCHANGED tokenVars
  /\ UNCHANGED <<cmd, cmdFailures, cmdItems, exported>>

(* refreshTokenForce after await getOctokitClient(): 'Token refresh       *)
(* completed' and displayTokenInfo of the configuration.                   *)
RefreshCompleted(c) ==
  /\ cmdPc = "awaitClient"
  /\ cmd.name = "token"
  /\ pc[c] = "done"
  /\ displayed' = TRUE
  /\ cmdPc' = "returned"
  /\ UNCHANGED <<cmd, cmdFailures, cmdItems, exported>>

(* getOctokitClient has thrown: the catch block of refreshTokenForce. *)
RefreshFailed(c) ==
  /\ cmdPc = "awaitClient"
  /\ cmd.name = "token"
  /\ pc[c] = "failed"
  /\ cmdFailures' = cmdFailures \cup {Failure("credential", result[c].err)}
  /\ cmdPc' = "returned"
  /\ UNCHANGED <<cmd, cmdItems, displayed, exported>>

(* The steps of the getOctokitClient call the command awaits. *)
RefreshSteps(c) ==
  \/ TimeFails(c)
  \/ SignFails(c)
  \/ TimeReturns(c)
  \/ ExchangeFails(c)
  \/ ExchangeReturns(c)
  \/ TextRead(c)
  \/ JsonRead(c)

CmdIdle ==
  /\ cmdPc = "idle"
  /\ cmdFailures = {}
  /\ cmdItems = {}
  /\ displayed = FALSE
  /\ exported = FALSE

CmdInit == cmd \in Commands /\ CmdIdle

(* No command handler is part of the run. *)
CmdParked == cmd = Command("repos", "", FALSE, FALSE, FALSE) /\ CmdIdle

(* --------------------------- specifications ---------------------------- *)
Init == TokenInit /\ PageParked /\ RoundParked /\ RetryParked /\ BatchParked
  /\ TeamParked /\ CmdParked /\ HookParked

Next ==
  \/ \E c \in Callers : AwaitedCall(c) /\ UNCHANGED outsideToken
  \/ \E c \in Callers : Steps(c) /\ UNCHANGED outsideToken
  \/ Tick /\ UNCHANGED outsideToken

Spec == Init /\ [][Next]_vars

(* getOctokitClient called by several tasks at once. *)
ConcNext ==
  \/ \E c \in Callers : Call(c) /\ UNCHANGED outsideToken
  \/ \E c \in Callers : Steps(c) /\ UNCHANGED outsideToken
  \/ Tick /\ UNCHANGED outsideToken

ConcSpec == Init /\ [][ConcNext]_vars

(* One fetchAllPages call. *)
PagesInit == PageInit /\ TokenParked /\ RoundParked /\ RetryParked /\ BatchParked
  /\ TeamParked /\ CmdParked /\ HookParked

PagesNext ==
  \/ FetchBegin /\ UNCHANGED outsidePages
  \/ PageReturns /\ UNCHANGED outsidePages
  \/ PageFails /\ UNCHANGED outsidePages

PagesSpec == PagesInit /\ [][PagesNext]_vars

(* One fetchAllPages call with any options.perPage; a call whose loop     *)
(* does not end is followed for MaxPageRequests requests.                  *)
AnyPerPagePagesInit ==
  AnyPerPageInit /\ TokenParked /\ RoundParked /\ RetryParked /\ BatchParked
  /\ TeamParked /\ CmdParked /\ HookParked

AnyPerPageNext ==
  \/ FetchBegin /\ UNCHANGED outsidePages
  \/ Len(requested) < MaxPageRequests /\ PageReturns /\ UNCHANGED outsidePages
  \/ PageFails /\ UNCHANGED outsidePages

AnyPerPageSpec == AnyPerPagePagesInit /\ [][AnyPerPageNext]_vars

(* fetchAllPages called, and called again with the length of its result. *)
RoundTripNext ==
  \/ PagesNext
  \/ Redrain /\ UNCHANGED outsideRound

RoundTripSpec == PagesInit /\ [][RoundTripNext]_vars

(* One retryWithBackoff call around an operation. *)
RetryOnlyInit ==
  RetryInit /\ TokenParked /\ PageParked /\ RoundParked /\ BatchParked
  /\ TeamParked /\ CmdParked /\ HookParked

RetryNext ==
  \/ RetryCall /\ UNCHANGED pageLog /\ UNCHANGED outsideRetry
  \/ OpReturns /\ UNCHANGED outsideRetry
  \/ OpThrows /\ UNCHANGED outsideRetry
  \/ RetryWakes /\ UNCHANGED pageLog /\ UNCHANGED outsideRetry

RetrySpec == RetryOnlyInit /\ [][RetryNext]_vars

(* One retryWithBackoff call around fetchAllPages. *)
RetriedFetchInit ==
  RetriedPageInit /\ RetryParked /\ TokenParked /\ RoundParked /\ BatchParked
  /\ TeamParked /\ CmdParked /\ HookParked

RetriedFetchNext ==
  \/ RetriedFetchCall /\ UNCHANGED outsideRetryPages
  \/ RetriedPageReturns /\ UNCHANGED outsideRetryPages
  \/ RetriedPageFails /\ UNCHANGED outsideRetryPages
  \/ RetriedFetchWakes /\ UNCHANGED outsideRetryPages

RetriedFetchSpec == RetriedFetchInit /\ [][RetriedFetchNext]_vars

(* One call of fetchAllRepositorySecrets or fetchAllRepositoryVariables. *)
BatchOnlyInit ==
  BatchInit /\ TokenParked /\ PageParked /\ RoundParked /\ RetryParked
  /\ TeamParked /\ CmdParked /\ HookParked

BatchNext ==
  \/ BatchCall /\ UNCHANGED outsideBatch
  \/ ListingFails /\ UNCHANGED outsideBatch
  \/ ReposListed /\ UNCHANGED outsideBatch
  \/ \E e \in Repos : TaskSettles(e) /\ UNCHANGED outsideBatch
  \/ BatchSettles /\ UNCHANGED outsideBatch
  \/ BatchWakes /\ UNCHANGED outsideBatch

BatchSpec == BatchOnlyInit /\ [][BatchNext]_vars

(* The enrichment of one team of an organization. *)
TeamsInit ==
  TeamInit /\ TokenParked /\ PageParked /\ RoundParked /\ RetryParked
  /\ BatchParked /\ CmdParked /\ HookParked

TeamsNext ==
  \/ EnrichTeam /\ UNCHANGED outsideTeams
  \/ DetailsFetched /\ UNCHANGED outsideTeams
  \/ ReposFetched /\ UNCHANGED outsideTeams
  \/ AllMembersFetched /\ UNCHANGED outsideTeams
  \/ ChildMembersFetched /\ UNCHANGED outsideTeams

TeamsSpec == TeamsInit /\ [][TeamsNext]_vars

(* One invocation of the repos, teams, webhooks, secrets or variables     *)
(* command.                                                                *)
CommandsInit ==
  CmdInit /\ TokenParked /\ PageParked /\ RoundParked /\ RetryParked
  /\ BatchParked /\ TeamParked /\ HookParked

CommandsNext ==
  \/ CommandCall /\ UNCHANGED outsideCmd
  \/ ClientFails /\ UNCHANGED outsideCmd
  \/ ClientReturns /\ UNCHANGED outsideCmd
  \/ OrgDetected /\ UNCHANGED outsideCmd
  \/ ListingThrows /\ UNCHANGED outsideCmd
  \/ ListingReturns /\ UNCHANGED outsideCmd
  \/ EnrichReturns /\ UNCHANGED outsideCmd
  \/ OrgItemsThrow /\ UNCHANGED outsideCmd
  \/ OrgItemsReturn /\ UNCHANGED outsideCmd
  \/ RepoItemsThrow /\ UNCHANGED outsideCmd
  \/ RepoItemsReturn /\ UNCHANGED outsideCmd

CommandsSpec == CommandsInit /\ [][CommandsNext]_vars

(* The webhooks command on one webhook, run twice. *)
WebhooksInit ==
  HookInit /\ TokenParked /\ PageParked /\ RoundParked /\ RetryParked
  /\ BatchParked /\ TeamParked /\ CmdParked

WebhooksNext ==
  \/ WebhooksListed /\ UNCHANGED outsideHooks
  \/ WebhooksUnlisted /\ UNCHANGED outsideHooks
  \/ DetailReturns /\ UNCHANGED outsideHooks
  \/ DetailFails /\ UNCHANGED outsideHooks
  \/ WebhookOutput /\ UNCHANGED outsideHooks

WebhooksSpec == WebhooksInit /\ [][WebhooksNext]_vars

(* One invocation of the token command. *)
TokenCmdInit ==
  /\ TokenInit
  /\ cmd \in TokenCommands
  /\ CmdIdle
  /\ PageParked /\ RoundParked /\ RetryParked /\ BatchParked /\ TeamParked
  /\ HookParked

TokenCmdNext ==
  \/ \E c \in Callers : TokenCommandCall(c) /\ UNCHANGED outsideTokenCmd
  \/ \E c \in Callers : RefreshSteps(c) /\ UNCHANGED outsideToken
  \/ \E c \in Callers : RefreshCompleted(c) /\ UNCHANGED tokenVars
                             /\ UNCHANGED outsideTokenCmd
  \/ \E c \in Callers : RefreshFailed(c) /\ UNCHANGED tokenVars
                          /\ UNCHANGED outsideTokenCmd
  \/ Tick /\ UNCHANGED outsideToken

TokenCmdSpec == TokenCmdInit /\ [][TokenCmdNext]_vars

(* ------------------------- the token lifecycle ------------------------- *)
RefreshPcs == {"awaitTime", "awaitExchange", "awaitText", "awaitJson"}
ExchangePcs == {"awaitExchange", "awaitText", "awaitJson"}

(* The step is the start of a getOctokitClient call by c. *)
Calling(c) == pc[c] = "idle" /\ pc'[c] # "idle"

(* C1: overlapping getOctokitClient calls made while no valid credential  *)
(* is cached issue one token exchange in total: at no time have two       *)
(* callers each an exchange request of their own outstanding.              *)
C1_SingleFlight ==
  Cardinality({c \in Callers : pc[c] \in ExchangePcs}) <= 1

(* A token is cached whose expiry is more than 5 minutes away. *)
FreshCached ==
  /\ Truthy(cfgToken)
  /\ cfgExpires.kind = "iso"
  /\ cfgExpires.t - now > 5 * Minute

(* C2: a getOctokitClient call made while a token is cached whose expiry  *)
(* is more than 5 minutes away returns a client for that token at once,   *)
(* sends no time-source request and no exchange request, does not call    *)
(* updateEnvToken or write the .env file, and leaves the cached token and *)
(* expiry as they were.                                                    *)
C2_ValidTokenNoNetwork ==
  [][\A c \in Callers :
       (Calling(c) /\ FreshCached) =>
          /\ pc'[c] = "done"
          /\ result'[c] = Client(cfgToken)
          /\ UNCHANGED <<timeReqs, exchangeReqs, issued, hookCalls, envFile,
                         cfgToken, cfgExpires>>]_vars

(* Two calls in succession: the first refreshed, the second has returned  *)
(* without a request.                                                      *)
C2_Witness ==
  \E c \in Callers :
     /\ pc[c] = "done"
     /\ hookCalls[c] = <<>>
     /\ calls = 2
     /\ timeReqs = 1
     /\ exchangeReqs = 1

(* The cached expiry is missing, unparseable, past or at most 5 minutes   *)
(* away.                                                                   *)
StaleExpiry == cfgExpires.kind # "iso" \/ cfgExpires.t - now <= 5 * Minute
StaleCached == ~Truthy(cfgToken) \/ StaleExpiry

(* C3: for an expiry that is missing, unparseable, past or at most 5      *)
(* minutes away isTokenValid is false, and every getOctokitClient call    *)
(* made with such an expiry or without a token starts a refresh instead   *)
(* of returning a client.                                                  *)
C3_NeverReusedInBuffer ==
  /\ [](StaleExpiry => ~isTokenValid(cfgExpires))
  /\ [][\A c \in Callers :
          (Calling(c) /\ StaleCached) =>
             /\ pc'[c] = "awaitTime"
             /\ timeReqs' = timeReqs + 1
             /\ result'[c] = NoResult]_vars

(* A call has started a refresh for a token expiring in exactly 5 minutes. *)
C3_Witness ==
  \E c \in Callers :
     /\ pc[c] = "awaitTime"
     /\ Truthy(cfgToken)
     /\ cfgExpires = Iso(now + 5 * Minute)

(* Every line of the .env file for key holds v, and there is one. *)
StoreHolds(key, v) ==
  /\ envFile.exists
  /\ \E i \in 1..Len(envFile.lines) : envFile.lines[i].key = key
  /\ \A i \in 1..Len(envFile.lines) :
        envFile.lines[i].key = key => envFile.lines[i].val = v

(* C4: when a refresh has succeeded, updateEnvToken was called exactly    *)
(* once, with the token and expiry of the exchange response, and the .env *)
(* entries and the in-memory credential hold exactly those two values,    *)
(* whatever the .env file contained before.                                *)
C4_RefreshPersisted ==
  \A c \in Callers :
     (pc[c] = "done" /\ resp[c].status # 0) =>
        /\ hookCalls[c] = << <<resp[c].token, resp[c].expires>> >>
        /\ cfgToken = resp[c].token
        /\ cfgExpires = resp[c].expires
        /\ StoreHolds(KeyToken, resp[c].token)
        /\ StoreHolds(KeyExpires, resp[c].expires)

C6_NoGuessedTime ==
  \A c \in Callers :
     pc[c] \in ExchangePcs =>
        /\ jwtOf[c].header.kind = "iso"
        /\ ~jwtOf[c].iat.nan
        /\ jwtOf[c].iat.v = (jwtOf[c].header.t \div 1000) - 60

(* ---------------------------- the pagination --------------------------- *)
(* The items of the responses rs, in the order received. *)
RECURSIVE PagesConcat(_)
PagesConcat(rs) ==
  IF rs = <<>> THEN <<>>
  ELSE PagesConcat(SubSeq(rs, 1, Len(rs) - 1)) \o rs[Len(rs)].seq

Cursors(k) == [i \in 1..k |-> i]

(* The endpoint's items are bare or under a field extractData reads. *)
RecognisedShape == endpoint.field \in {"", "repositories", "items"}

(* C7: fetchAllPages terminates with exactly the n items of the           *)
(* collection, after ceil(n/p) fetch calls when n is not a multiple of    *)
(* the page size p, after ceil(n/p)+1 when it is: n div p + 1 calls.      *)
C7_DrainCounts ==
  pgPc = "done" =>
     /\ pgResult.kind = "returned"
     /\ pgResult.value = collection
     /\ Len(requested) = (Len(collection) \div perPage) + 1

(* C7 holds of the endpoints whose items extractData finds. *)
DrainCountsRecognised == RecognisedShape => C7_DrainCounts

(* The cursors requested are 1, 2, 3, ... and a page is requested only    *)
(* when every earlier one has been received.                               *)
CursorOrder ==
  /\ requested = Cursors(Len(requested))
  /\ Len(returned) <= Len(requested)
  /\ Len(requested) <= Len(returned) + 1
  /\ pgPc \in {"awaitPage", "threw"} <=> Len(requested) = Len(returned) + 1

(* C8: pages are requested with cursors 1, 2, 3, ... without gaps, page   *)
(* k+1 only after page k has been received and appended, and the result   *)
(* is the concatenation of the pages in cursor order, nothing reordered   *)
(* or dropped.                                                             *)
C8_InCursorOrder ==
  /\ CursorOrder
  /\ results = PagesConcat(returned)

(* C8 holds of the endpoints whose items extractData finds. *)
InCursorOrderRecognised == RecognisedShape => C8_InCursorOrder

(* C9: when a page fetch throws, fetchAllPages throws that very error:    *)
(* it returns nothing, and the failed request is the last one made, no    *)
(* cursor having been requested twice.                                     *)
C9_FailurePropagates ==
  pgPc = "threw" =>
     /\ pgResult.kind = "threw"
     /\ pgResult.err = fetchError
     /\ pgResult.value = <<>>
     /\ requested = Cursors(Len(returned) + 1)

(* The fetch for a cursor after the first failed with a 403, items of     *)
(* earlier pages having been collected.                                    *)
C9_Witness ==
  /\ pgPc = "threw"
  /\ Len(requested) >= 2
  /\ results # <<>>
  /\ fetchError = Err("HttpError", 403)

(* C10: whichever field of the response body holds the page's items,      *)
(* fetchAllPages extracts all of them, so that all items of every page    *)
(* are in the result and the loop ends only on a page with fewer items    *)
(* than per_page.                                                          *)
C10_EveryShapeExtracted ==
  /\ \A i \in 1..Len(returned) : extractData(returned[i]) = returned[i].seq
  /\ pgPc = "done" => Len(returned[Len(returned)].seq) < perPage

(* The second fetchAllPages call of the run has returned. *)
Redrained == firstDrain.done /\ pgPc = "done"

(* C11 as claimed: draining again with the page size set to the length of *)
(* the full result returns the same sequence with exactly one fetch call. *)
C11_RoundTripOneCall ==
  Redrained =>
     /\ pgResult.value = firstDrain.value
     /\ Len(requested) = 1

(* C11 as amended: draining again with the page size set to the length r  *)
(* of the full result returns the same sequence; for 1 <= r <= 100 it     *)
(* takes exactly two fetch calls, the full page and an empty one, and for *)
(* r = 0 (the page size falls back to the default 30) exactly one.        *)
C11_RoundTripTwoCalls ==
  Redrained =>
     /\ pgResult.value = firstDrain.value
     /\ Len(firstDrain.value) \in 1..maxPerPage =>
           /\ perPage = Len(firstDrain.value)
           /\ Len(requested) = 2
           /\ Len(returned[1].seq) = perPage
           /\ returned[2].seq = <<>>
     /\ firstDrain.value = <<>> =>
           /\ perPage = defaultPerPage
           /\ Len(requested) = 1

(* A collection of 3 items drained in 4 calls with page size 1 has been   *)
(* drained again with page size 3.                                         *)
C11_Witness ==
  /\ Redrained
  /\ firstDrain.perPage = 1
  /\ firstDrain.calls = 4
  /\ Len(pgResult.value) = 3
  /\ perPage = 3

(* ------------------------------ the retry ------------------------------ *)
(* C12: with maxRetries = 3 an operation that fails twice and then        *)
(* succeeds is invoked exactly 3 times and its value is returned, and one *)
(* that always fails is invoked exactly 3 times before the call throws;   *)
(* in general the operation is invoked at most maxRetries times, never    *)
(* again after a success, and no sleep follows the final failed attempt.  *)
C12_AttemptsBounded ==
  /\ [](/\ fnCalls <= rtConfig.maxRetries
        /\ Len(slept) <= rtConfig.maxRetries - 1
        /\ rtPc = "returned" =>
              /\ fnCalls = Len(fnErrors) + 1
              /\ Len(slept) = Len(fnErrors)
              /\ fnValues = <<rtResult.value>>
              /\ rtResult.kind = "returned"
        /\ rtPc = "threw" =>
              /\ fnCalls = rtConfig.maxRetries
              /\ Len(fnErrors) = rtConfig.maxRetries
              /\ Len(slept) = rtConfig.maxRetries - 1
              /\ fnValues = <<>>
              /\ rtResult.kind = "threw"
        /\ (rtConfig.maxRetries = 3 /\ Len(fnErrors) = 2 /\ fnValues # <<>>) =>
              /\ fnCalls = 3
              /\ rtPc = "returned"
        /\ (rtConfig.maxRetries = 3 /\ Len(fnErrors) = 3) =>
              /\ fnCalls = 3
              /\ rtPc = "threw")
  /\ [][fnValues # <<>> => fnCalls' = fnCalls]_vars

(* An operation failed twice and succeeded at the third invocation. *)
C12_Witness ==
  /\ rtConfig.maxRetries = 3
  /\ rtPc = "returned"
  /\ Len(fnErrors) = 2
  /\ fnCalls = 3
  /\ Len(slept) = 2

(* C13: when every attempt fails retryWithBackoff throws the error of the *)
(* last attempt itself, not wrapped and not an earlier attempt's, and     *)
(* after a failed attempt that is not the last a retry is made whatever   *)
(* the error is, a 404 included.                                           *)
C13_LastErrorRethrown ==
  /\ [](rtPc = "threw" =>
           /\ Len(fnErrors) = rtConfig.maxRetries
           /\ rtResult.err = fnErrors[Len(fnErrors)])
  /\ [][(rtPc = "awaitFn" /\ fnErrors' # fnErrors) =>
          IF attempt < rtConfig.maxRetries
          THEN rtPc' = "sleeping" /\ rtResult' = NoRetryResult
          ELSE rtPc' = "threw"]_vars

(* Three attempts failed with a 404, a 500 and a network error, and the   *)
(* call has thrown.                                                        *)
C13_Witness ==
  /\ rtPc = "threw"
  /\ fnErrors = <<Err("HttpError", 404), Err("HttpError", 500), Err("FetchFailed", 0)>>

(* C14: the retry wraps the single page fetch: after the fetch for a      *)
(* cursor k has failed, the request made when the backoff sleep ends is   *)
(* the one for cursor k again, so that pages 1..k-1, which have           *)
(* succeeded, are not requested a second time.                             *)
C14_OnlyFailedPageRetried ==
  [][(rtPc = "sleeping" /\ rtPc' = "awaitFn") =>
        pageLog' = Append(pageLog, currentPage)]_vars

(* A failure at the first cursor is retried at the first cursor. *)
RetriedFromFailedFirstPage ==
  [][(rtPc = "sleeping" /\ rtPc' = "awaitFn" /\ currentPage = 1) =>
        pageLog' = Append(pageLog, currentPage)]_vars

(* --------------------------- the batch engine -------------------------- *)
group(e) == (e - 1) \div 5
InFlight == {e \in Repos : task[e] = "inflight"}
Groups == (repoCount + 4) \div 5

(* C15: the repositories are processed in consecutive groups of 5 (12     *)
(* give 5, 5, 2): at most 5 tasks are in flight, the tasks of a group     *)
(* start together, and no task of a later group has started while a task  *)
(* of an earlier group has not settled, by success or by failure.          *)
C15_GroupsOfFive ==
  /\ Cardinality(InFlight) <= 5
  /\ \A e, d \in Repos :
        /\ (group(e) < group(d) /\ task[d] # "notStarted") => task[e] = "settled"
        /\ group(e) = group(d) => (task[e] = "notStarted" <=> task[d] = "notStarted")
  /\ btPc = "awaitAll" =>
        /\ bi % 5 = 0
        /\ \A e \in Repos : task[e] # "notStarted" <=> group(e) <= bi \div 5
  /\ btPc = "returned" => \A e \in Repos : task[e] = "settled"

(* The third group of more than 10 repositories is in flight, the first   *)
(* repository having failed.                                               *)
C15_Witness ==
  /\ repoCount > 10
  /\ bi = 10
  /\ InFlight = 11..repoCount
  /\ plan[1] = Failed(403)

(* The items the run has to deliver for repository e. *)
Expected(e) == IF plan[e].kind = "ok" THEN <<e>> ELSE <<>>

(* C16: a failing fetch of one repository (403, 404 or any other error)   *)
(* gives an empty result for that repository only: the engine does not    *)
(* throw, every repository of the group and of the later groups is        *)
(* processed, and the output holds the items of every repository whose    *)
(* fetch succeeded.                                                        *)
C16_FailuresContained ==
  /\ btPc # "threw"
  /\ \A e \in Repos :
        (batchResults[e].set /\ plan[e].kind = "error") => batchResults[e].value = <<>>
  /\ btPc = "returned" =>
        /\ \A e \in Repos : task[e] = "settled"
        /\ \A e \in Repos :
              plan[e].kind = "ok" <=> \E k \in 1..Len(allSecrets) : allSecrets[k] = e
        /\ Len(allSecrets) = Cardinality({e \in Repos : plan[e].kind = "ok"})

(* The engine has returned items although fetches of the first and of     *)
(* later groups failed with a 403, a 404 and a 500.                        *)
C16_Witness ==
  /\ btPc = "returned"
  /\ repoCount > 5
  /\ allSecrets # <<>>
  /\ \E e, d, f \in Repos :
        /\ plan[e] = Failed(403)
        /\ plan[d] = Failed(404)
        /\ plan[f] = Failed(500)

(* C17: the engine sleeps 100 ms once between two consecutive groups and  *)
(* never after the last: ceil(n/5) - 1 sleeps for n > 0 repositories,     *)
(* none for n = 0.                                                         *)
C17_DelayBetweenGroups ==
  /\ \A k \in 1..Len(btSlept) : btSlept[k] = 100
  /\ btPc = "awaitAll" => Len(btSlept) = bi \div 5
  /\ btPc = "sleeping" => Len(btSlept) = bi \div 5 + 1 /\ bi + 5 < repoCount
  /\ btPc = "returned" =>
        Len(btSlept) = IF repoCount = 0 THEN 0 ELSE Groups - 1

(* Two full groups have been processed with one sleep between them. *)
C17_Witness ==
  /\ btPc = "returned"
  /\ repoCount = 10
  /\ btSlept = <<100>>

RECURSIVE ExpectedUpTo(_)
ExpectedUpTo(k) == IF k = 0 THEN <<>> ELSE ExpectedUpTo(k - 1) \o Expected(k)

(* The repositories whose results have been merged into the output. *)
Merged ==
  IF btPc \in {"idle", "listing", "listFailed"} THEN 0
  ELSE IF btPc = "awaitAll" THEN bi
  ELSE IF btPc = "sleeping" THEN bi + 5
  ELSE repoCount

(* C18: whatever the order in which the tasks of a group complete, the    *)
(* result of each task is in the slot of its own repository, none lost or *)
(* overwritten, and the output is the results of the repositories         *)
(* concatenated in the order of the repositories.                          *)
C18_OwnSlot ==
  /\ btPc = "awaitAll" =>
        \A e \in Repos :
           /\ batchResults[e].set <=> (group(e) = bi \div 5 /\ task[e] = "settled")
           /\ batchResults[e].set => batchResults[e].value = Expected(e)
  /\ btPc # "threw" => allSecrets = ExpectedUpTo(Merged)

(* In a group the task of a later repository has completed before the     *)
(* task of an earlier one, both with items.                                *)
C18_Witness ==
  \E e, d \in Repos :
     /\ e < d
     /\ group(e) = group(d)
     /\ task[e] = "inflight"
     /\ task[d] = "settled"
     /\ batchResults[d].value = <<d>>
     /\ plan[e] = Fetched

(* C19: permission-denied fetches are reported as one aggregate per       *)
(* batch, not once per repository: the number of error lines about them   *)
(* does not exceed the number of groups, however many repositories are    *)
(* denied.                                                                 *)
C19_DeniedReportedOnce == deniedReports <= Groups

(* -------------------------- the team hierarchy ------------------------- *)
(* The teams of the list whose parent is slug. *)
ChildSlugs(slug) == {teams[i].slug : i \in {j \in 1..Len(teams) : teams[j].parent = slug}}

IsRootWithChildren(slug) ==
  /\ \A i \in 1..Len(teams) : teams[i].slug = slug => teams[i].parent = NoParent
  /\ ChildSlugs(slug) # {}

Members(list) == {list[i] : i \in 1..Len(list)}

(* list without the users of the set out, the order kept. *)
Without(list, out) == SelectSeq(list, LAMBDA u : u \notin out)

(* C20: for a team without parent and with at least one child the direct  *)
(* members are the team's raw members minus the union of the raw member   *)
(* lists of its children, a member list whose fetch failed counting as    *)
(* empty; with platform [A,B,C] and platform-backend [B,C] the direct     *)
(* members of platform are [A] and those of platform-backend [B,C].        *)
(* The organization of the example, every member fetch having succeeded. *)
ExampleResolved ==
  /\ tmPc = "done"
  /\ teams = <<Team("platform", NoParent), Team("platform-backend", "platform")>>
  /\ rawMembers["platform"] = <<1, 2, 3>>
  /\ rawMembers["platform-backend"] = <<2, 3>>
  /\ \A k \in 1..Len(dmFetches) : dmFetches[k].ok

C20_RootDirectMembers ==
  /\ ExampleResolved =>
        directMembers = IF teamSlug = "platform" THEN <<1>> ELSE <<2, 3>>
  /\ (tmPc = "done" /\ IsRootWithChildren(teamSlug)) =>
        /\ dmFetches[1].slug = teamSlug
        /\ {dmFetches[k].slug : k \in 2..Len(dmFetches)} = ChildSlugs(teamSlug)
        /\ Len(dmFetches) = 1 + Cardinality(ChildSlugs(teamSlug))
        /\ directMembers =
             Without(dmFetches[1].value,
                     UNION {Members(dmFetches[k].value) : k \in 2..Len(dmFetches)})
        /\ (\A k \in 1..Len(dmFetches) : dmFetches[k].ok) =>
             directMembers =
               Without(rawMembers[teamSlug],
                       UNION {Members(rawMembers[c]) : c \in ChildSlugs(teamSlug)})

(* platform with raw members [1,2,3] and child platform-backend with raw  *)
(* members [2,3] has the direct members [1].                               *)
C20_Witness ==
  /\ tmPc = "done"
  /\ teams = <<Team("platform", NoParent), Team("platform-backend", "platform")>>
  /\ teamSlug = "platform"
  /\ rawMembers["platform"] = <<1, 2, 3>>
  /\ rawMembers["platform-backend"] = <<2, 3>>
  /\ directMembers = <<1>>

(* The team has a parent in the list teams.list returned. *)
HasParent(slug) ==
  \E i \in 1..Len(teams) : teams[i].slug = slug /\ teams[i].parent # NoParent

(* C21: for every team that has a parent, with or without children of its *)
(* own, the direct members are all of the team's raw members, nothing     *)
(* being excluded and no child's member list being fetched; and for a     *)
(* team with neither parent nor children all raw members are direct.  A   *)
(* member list whose fetch failed counts as empty.                         *)
C21_ParentedKeepAll ==
  (tmPc = "done" /\ (HasParent(teamSlug) \/ ChildSlugs(teamSlug) = {})) =>
     /\ Len(dmFetches) = 1
     /\ dmFetches[1].slug = teamSlug
     /\ directMembers = dmFetches[1].value
     /\ dmFetches[1].ok => directMembers = rawMembers[teamSlug]

(* platform-backend, child of platform and parent of api, keeps both its  *)
(* raw members although one of them is a member of api as well.            *)
C21_Witness ==
  /\ tmPc = "done"
  /\ teams = <<Team("platform", NoParent), Team("platform-backend", "platform"),
               Team("api", "platform-backend")>>
  /\ teamSlug = "platform-backend"
  /\ rawMembers["platform-backend"] = <<1, 2>>
  /\ rawMembers["api"] = <<2>>
  /\ directMembers = <<1, 2>>

(* No slug occurs twice in the list. *)
NoDuplicates(list) ==
  \A i, j \in 1..Len(list) : list[i] = list[j] => i = j

(* C22: the hierarchy built has an entry {parent, children} for every     *)
(* team slug and for nothing else; for all teams c and p of the list, c   *)
(* is among the children of p exactly when the parent of c is p; no child *)
(* is listed twice; the parent recorded is the team's parent, null for a  *)
(* team without one.                                                       *)
C22_HierarchyConsistent ==
  tmPc # "idle" =>
     /\ DOMAIN teamHierarchy = Slugs(teams)
     /\ \A c, p \in 1..Len(teams) :
           teams[c].slug \in Members(teamHierarchy[teams[p].slug].children)
              <=> teams[c].parent = teams[p].slug
     /\ \A p \in Slugs(teams) :
           /\ NoDuplicates(teamHierarchy[p].children)
           /\ Members(teamHierarchy[p].children) \subseteq Slugs(teams)
     /\ \A c \in 1..Len(teams) :
           teamHierarchy[teams[c].slug].parent = teams[c].parent

(* The hierarchy of platform with its two children has been built, the    *)
(* children in the order of the list.                                      *)
C22_Witness ==
  /\ tmPc # "idle"
  /\ Len(teams) = 3
  /\ teamHierarchy["platform"] =
       [parent |-> NoParent, children |-> <<"platform-backend", "platform-frontend">>]
  /\ teamHierarchy["platform-frontend"] = [parent |-> "platform", children |-> <<>>]

(* C23: every username of direct_members_only of an enriched team occurs  *)
(* in member_details of the same team, so that the direct count does not  *)
(* exceed members_count, whatever the member-list fetches made during the *)
(* enrichment answered.                                                    *)
C23_DirectSubsetOfDetails ==
  tmPc = "done" =>
     /\ Members(directMembers) \subseteq Members(memberDetails)
     /\ Len(directMembers) <= Len(memberDetails)

(* C23 holds of the runs in which no member-list fetch failed. *)
DirectSubsetWhenFetched ==
  (/\ tmPc = "done"
   /\ memberDetails = rawMembers[teamSlug]
   /\ \A k \in 1..Len(dmFetches) : dmFetches[k].ok) =>
     /\ Members(directMembers) \subseteq Members(memberDetails)
     /\ Len(directMembers) <= Len(memberDetails)

(* ------------------------- the command handlers ------------------------ *)
(* getOctokitClient or the fetchAllPages call of a listing of the command *)
(* has thrown in this invocation.                                          *)
PrimaryFailure == cmdFailures # {}

(* C24: a credential failure or a pagination failure on a primary listing *)
(* of a command (repos, teams, webhooks, secrets, variables) is fatal for *)
(* the invocation: once it has happened the invocation calls no display   *)
(* function with results and writes no CSV file.                           *)
C24_FailureIsFatal == PrimaryFailure => (~displayed /\ ~exported)

(* C24 holds of the repos, teams and webhooks commands, of secrets and    *)
(* variables with one scope, and of variables with both scopes, except    *)
(* for a 404 on the listing of the organization's variables.               *)
FatalOutsideDegradedPaths ==
  (/\ PrimaryFailure
   /\ ~(cmd.name = "secrets" /\ cmd.scope = "both")
   /\ ~(cmd.name = "variables"
        /\ \E f \in cmdFailures : f.at = "orgListing" /\ f.err.status = 404))
  => (~displayed /\ ~exported)

(* ------------------------------ the backoff ---------------------------- *)
(* min(baseDelay * 2^(k-1), maxDelay) of the configuration of the call. *)
CappedDelay(k) ==
  LET doubled == rtConfig.baseDelay * 2^(k - 1)
  IN IF doubled < rtConfig.maxDelay THEN doubled ELSE rtConfig.maxDelay

(* C25: the delay slept after the failed attempt k < maxRetries is        *)
(* min(baseDelay * 2^(k-1), maxDelay) plus a jitter of at most 10% of     *)
(* that value; with the default configuration it is within [1000, 1100]   *)
(* ms after attempt 1 and within [2000, 2200] ms after attempt 2; the     *)
(* part without jitter does not exceed maxDelay for any k.                 *)
C25_BackoffDelays ==
  /\ Len(slept) < rtConfig.maxRetries
  /\ \A k \in 1..Len(slept) :
        /\ CappedDelay(k) <= slept[k]
        /\ 10 * (slept[k] - CappedDelay(k)) <= CappedDelay(k)
        /\ CappedDelay(k) <= rtConfig.maxDelay
  /\ rtConfig = RETRY_CONFIG =>
        /\ Len(slept) >= 1 => slept[1] \in 1000..1100
        /\ Len(slept) >= 2 => slept[2] \in 2000..2200

(* With the default configuration two attempts have failed and the two    *)
(* sleeps were of 1050 ms and of 2199 ms.                                  *)
C25_Witness ==
  /\ rtConfig = RETRY_CONFIG
  /\ slept = <<1050, 2199>>
  /\ Len(fnErrors) = 2

(* A sleep was of the cap: the doubled delay exceeded maxDelay. *)
CapReached ==
  \E k \in 1..Len(slept) :
     /\ rtConfig.baseDelay * 2^(k - 1) > rtConfig.maxDelay
     /\ slept[k] >= rtConfig.maxDelay

(* ---------------------------- the token command ------------------------ *)
(* An invocation of token --refresh has printed 'Token refresh completed'. *)
RefreshReported ==
  /\ cmd.name = "token"
  /\ cmd.refresh
  /\ cmdPc = "returned"
  /\ displayed

(* C26: token --refresh forces a refresh: every invocation that reports   *)
(* the refresh as completed has performed a token exchange and replaced   *)
(* the token and expiry of the configuration by those of the exchange,    *)
(* also when the token cached at the start was still valid for more than  *)
(* 5 minutes.                                                              *)
C26_RefreshForced ==
  RefreshReported =>
     /\ timeReqs = 1
     /\ exchangeReqs = 1
     /\ issued = 1
     /\ cfgToken = Text("ghs", 1)
     /\ cfgExpires.kind = "iso"

(* C26 holds of the invocations that requested the time source, those     *)
(* made without a token valid for more than 5 minutes.                     *)
RefreshedWhenStale ==
  (RefreshReported /\ timeReqs > 0) =>
     /\ exchangeReqs = 1
     /\ issued = 1
     /\ cfgToken = Text("ghs", 1)
     /\ cfgExpires.kind = "iso"

(* -------------------------- the webhook secrets ------------------------ *)
(* The two runs differ in the value of the secret only. *)
SecretValuesDiffer ==
  /\ Truthy(whSecret[1])
  /\ Truthy(whSecret[2])
  /\ whSecret[1] # whSecret[2]

(* C27: the secret of a webhook never reaches the output: whether the     *)
(* detail fetch succeeded or failed, the config.secret that is displayed  *)
(* or exported is '***configured***' or 'not configured' only, and two    *)
(* runs that differ only in the value of the secret output the same.      *)
C27_SecretNeverShown ==
  whPc = "shown" =>
     /\ \A r \in Runs : whShown[r] \in {NothingShown, Masked, NotConfigured}
     /\ SecretValuesDiffer => whShown[1] = whShown[2]

(* C27 holds of the webhooks whose detail fetch succeeded. *)
MaskedWhenDetailed ==
  (whPc = "shown" /\ whDetailed) =>
     /\ \A r \in Runs : whShown[r] \in {NothingShown, Masked, NotConfigured}
     /\ SecretValuesDiffer => whShown[1] = whShown[2]

(* ------------------------ memory and the .env file --------------------- *)
(* No refresh is under way. *)
Quiescent == \A c \in Callers : pc[c] \notin RefreshPcs

(* config.github.token and tokenExpires are what a process loading the    *)
(* .env file would read.                                                   *)
MemoryMatchesStore ==
  /\ cfgToken = EnvValue(envFile.lines, KeyToken)
  /\ cfgExpires = EnvValue(envFile.lines, KeyExpires)

(* C28: whatever the .env file held before and however the refresh        *)
(* attempts made so far ended, once a refresh has completed the           *)
(* credential in memory and the credential entries of the .env file       *)
(* denote the same token and expiry.                                       *)
C28_MemoryAndStoreAgree == (Quiescent /\ timeReqs > 0) => MemoryMatchesStore

(* C28 holds of the second updateEnvToken, and of the first when the      *)
(* .env file has both entries or cannot be read.                           *)
AgreeWhereEntriesWritten ==
  (/\ Quiescent
   /\ timeReqs > 0
   /\ \/ cfgBuild = "v2"
      \/ ~envFile.exists
      \/ HasKey(envFile.lines, KeyToken) /\ HasKey(envFile.lines, KeyExpires))
  => MemoryMatchesStore

EmptyPageArrives ==
  /\ Len(returned') = Len(returned) + 1
  /\ returned'[Len(returned')].seq = <<>>

(* C30: whatever options.perPage the caller gave (absent, 0, negative or  *)
(* above the ceiling), the per_page that fetchAllPages sends is an        *)
(* integer in 1..100, 30 when the option is absent or 0, and the loop     *)
(* ends as soon as the endpoint returns a page without items.              *)
C30_PerPageWithinCeiling ==
  /\ [](pgPc # "idle" =>
          /\ perPage \in 1..maxPerPage
          /\ optPerPage = 0 => perPage = defaultPerPage)
  /\ [][EmptyPageArrives => pgPc' = "done"]_vars

(* C30 holds of every options.perPage that is not negative. *)
WithinCeilingUnlessNegative ==
  /\ [](pgPc # "idle" /\ optPerPage >= 0 =>
          /\ perPage \in 1..maxPerPage
          /\ optPerPage = 0 => perPage = defaultPerPage
          /\ optPerPage > maxPerPage => perPage = maxPerPage)
  /\ [][EmptyPageArrives /\ optPerPage >= 0 => pgPc' = "done"]_vars

(* With a negative options.perPage the loop goes on past empty pages. *)
LoopPastEmptyPages ==
  /\ pgPc = "awaitPage"
  /\ perPage < 1
  /\ Len(requested) = MaxPageRequests
  /\ \A i \in 1..Len(returned) : returned[i].seq = <<>>

====
